---- MODULE Spec2Model ----
(***************************************************************************)
(* hosted-providers-e2e: the EKS helper library (hosted/eks/helper), the   *)
(* P1 EKS scenarios and the P0/P1 suite lifecycle, as state machines.      *)
(*                                                                         *)
(* Spec      a scenario body calling the mutator helpers of                *)
(*           helper_cluster.go against the management API, each helper     *)
(*           followed by its Eventually(...) convergence poll, while the   *)
(*           control plane reconciles in the background.                   *)
(*                                                                         *)
(* SpecCli   the provider-CLI helpers of helper_cluster.go (eksctl through  *)
(*           proc.RunW), with the process environment and the temporary    *)
(*           kubeconfig files they touch.                                  *)
(*                                                                         *)
(* SpecSuite the specs of the P0 (part_000) and P1 (part_001) provisioning  *)
(*           suites run one after the other: BeforeEach, It, AfterEach,    *)
(*           around the `cluster` variable the blocks share.               *)
(*                                                                         *)
(* Time is counted in seconds.  tools.SetTimeout is taken with             *)
(* TIMEOUT_SCALE unset, where it returns its argument.                     *)
(***************************************************************************)
EXTENDS Integers, Sequences, FiniteSets, TLC

VARIABLES
    api,        \* the management API's record of the cluster
    outer,      \* the *management.Cluster the It/BeforeEach block holds
    cur,        \* the object the running test function's `cluster` points to
    alias,      \* TRUE while cur and outer are the same object
    scenario,   \* the steps of the scenario body
    step,       \* index of the step being run
    pc,         \* position inside the step: call, wait, poll, done
    cluster,    \* the helper's local `cluster` (the last API response)
    err,        \* the error the last helper returned to the test
    locals,     \* the values a helper captured before it mutated the object
    poll,       \* the running Eventually(...)
    outcome,    \* running, passed, failed
    failure,    \* what failed the test
    calls,      \* number of Update / Get-by-ID calls the current step issued
    hist,       \* history: the current helper's Update; synchronous errors
    environ,    \* the process environment: KUBECONFIG and the downstream one
    files,      \* the temporary kubeconfig files that exist
    proc,       \* the provider-CLI helper being run, and what it returned
    suite,      \* the suite: its flags, the running spec, the shared `cluster`
    chart       \* the chart-support spec: Rancher, operator chart, cluster

scenarioVars == <<api, outer, cur, alias, scenario, step, pc, cluster, err, locals,
                  poll, outcome, failure, calls, hist>>
cliVars == <<environ, files, proc>>
suiteVars == <<suite>>
chartVars == <<chart>>
vars == <<scenarioVars, cliVars, suiteVars, chartVars>>

(***************************************************************************)
(* Bounds                                                                  *)
(***************************************************************************)
\* node groups of the cluster fixture before the scenario starts
MaxNodeGroups == 3
\* specs one run of a suite executes
MaxSpecs == 2

(***************************************************************************)
(* Data                                                                    *)
(***************************************************************************)
Nil == "nil"
NoErr == "nil"

K8sVersions == {"1.29", "1.30"}
ClusterID == "c-1"

\* map[string]string as a set of <<key, value>> pairs with distinct keys
Keys(m) == {kv[1] : kv \in m}
\* maps.Copy(dst, src)
MapsCopy(dst, src) == {kv \in dst : kv[1] \notin Keys(src)} \cup src
\* a comparison that would only ask for the pairs of a to be in b
MapsInclude(a, b) == a \subseteq b
\* maps.Equal
MapsEqual(a, b) == a = b
HaveKeyWithValue(m, k, v) == <<k, v>> \in m

\* helpers.GetCommonMetadataLabels(): the tags every fixture cluster carries
CommonMetadataLabels == {<<"owner", "hosted-providers-qa">>}

\* the node-group template of the CATTLE_TEST_CONFIG file
TemplateNG ==
    [name |-> <<"ng-template", 0>>, ver |-> Nil, size |-> 1, max |-> 1,
     tags |-> {}, labels |-> {}]

\* namegen.AppendRandomString("ng"): the i-th fresh name
RandomNgName(i) == <<"ng-random", i>>

FixtureNG(i, v) ==
    [name |-> <<"ng", i>>, ver |-> v, size |-> 1, max |-> 1, tags |-> {<<"ngtag", "t">>},
     labels |-> {<<"nglabel", "l">>}]

\* the EKSConfig of a cluster created by CreateEKSHostedCluster and waited ready
FixtureCfg(k, v) ==
    [ver |-> v,
     ngs |-> [i \in 1..k |-> FixtureNG(i, v)],
     logging |-> <<>>,
     pub |-> TRUE, priv |-> FALSE,
     sources |-> <<"0.0.0.0/0">>,
     tags |-> CommonMetadataLabels]

NilCfg ==
    [ver |-> Nil, ngs |-> <<>>, logging |-> <<>>, pub |-> FALSE, priv |-> FALSE,
     sources |-> <<>>, tags |-> {}]

\* resp := &Cluster{} : what Update and ByID hand back together with an error
EmptyCluster ==
    [ID |-> "", cfg |-> NilCfg, status |-> NilCfg, transitioning |-> "",
     message |-> <<>>]

AllLoggingTypes == <<"api", "audit", "authenticator", "controllerManager", "scheduler">>

Range(s) == {s[i] : i \in 1..Len(s)}
\* gomega ContainElements
ContainElements(s, wanted) == Range(wanted) \subseteq Range(s)
\* gomega HaveExactElements
HaveExactElements(s, wanted) == s = wanted

CeilDiv(a, b) == (a + b - 1) \div b

(***************************************************************************)
(* The management API (client.Management.Cluster) and the control plane    *)
(***************************************************************************)
\* Minor version of "1.xx", for the provider's ordering of versions
Minor(v) ==
    IF v = "1.28" THEN 28 ELSE IF v = "1.29" THEN 29 ELSE IF v = "1.30" THEN 30 ELSE 0

ValidCIDRs == {"0.0.0.0/0", "10.0.0.0/8"}

MsgInvalidCIDR ==
    <<"InvalidParameterException: The following CIDRs are invalid in publicAccessCidrs">>
\* the two messages operator versions give for a node group whose version the
\* control plane's does not allow
MsgNotCompatible ==
    <<"versions for cluster and nodegroup", "not compatible">>
MsgMustMatch == <<"version must match cluster">>
MsgNoNodeGroups ==
    <<"Cluster must have at least one managed nodegroup or one self-managed node">>
\* the two messages operator versions give for node groups sharing a name
MsgNotUnique == <<"is not unique within the cluster">>
MsgMustBeUnique == <<"NodePool names must be unique">>
MsgNone == <<>>

\* strings.Contains(cluster.TransitioningMessage, sub): a message is the
\* sequence of the fragments it is made of
StringsContains(message, sub) == sub \in Range(message)

\* What the provider answers when it reconciles cfg: the message of the
\* error it raises, or MsgNone when cfg can be applied.
ProviderProblem(cfg) ==
    IF \E i \in 1..Len(cfg.sources) : cfg.sources[i] \notin ValidCIDRs
    THEN MsgInvalidCIDR
    ELSE IF \E i \in 1..Len(cfg.ngs) :
               cfg.ngs[i].ver # Nil /\ Minor(cfg.ngs[i].ver) > Minor(cfg.ver)
    THEN MsgNotCompatible
    ELSE IF \E i, j \in 1..Len(cfg.ngs) : i # j /\ cfg.ngs[i].name = cfg.ngs[j].name
    THEN MsgNotUnique
    ELSE IF Len(cfg.ngs) = 0
    THEN MsgNoNodeGroups
    ELSE MsgNone

\* the messages the cluster can show for the problem, by operator version
ProviderMessages(cfg) ==
    IF ProviderProblem(cfg) = MsgNotUnique THEN {MsgNotUnique, MsgMustBeUnique}
    ELSE IF ProviderProblem(cfg) = MsgNotCompatible THEN {MsgNotCompatible, MsgMustMatch}
    ELSE {ProviderProblem(cfg)}

\* The upstream spec the provider reports once cfg is applied: a node group
\* submitted without a version runs the version the provider gives it.
Provisioned(cfg) ==
    [cfg EXCEPT !.ngs = [i \in 1..Len(cfg.ngs) |->
        IF cfg.ngs[i].ver = Nil THEN [cfg.ngs[i] EXCEPT !.ver = cfg.ver]
        ELSE cfg.ngs[i]]]

\* an API that would validate nothing of what is submitted
ApiValidatesAnything(cfg) == TRUE

\* The API's synchronous validation of a submitted EKSConfig
ApiValidates(cfg) == cfg.pub \/ cfg.priv

\* the message of the validation error
ErrMustBeEnabled == "public access, private access, or both must be enabled"

\* gomega MatchError(ContainSubstring(sub)): an error is named by the message
\* the API gave it
MatchError(e, sub) == e \notin {NoErr, "pending"} /\ e = sub

\* Cluster.Update(existing, updates): the outcomes the call can have for the
\* object `existing` and the config `sent`: TRUE accepted, FALSE rejected.
UpdateOutcomes(existing, sent) ==
    IF existing.ID = ClusterID /\ api.exists /\ ApiValidates(sent)
    THEN {TRUE, FALSE} ELSE {FALSE}

\* the API's record after Cluster.Update
ApiAfterUpdate(sent, accept) ==
    IF accept
    THEN [api EXCEPT !.desired = sent, !.transitioning = "updating",
                     !.message = MsgNone]
    ELSE api

\* the (*Cluster) Cluster.Update returns
UpdateResp(sent, accept) ==
    IF accept
    THEN [ID |-> ClusterID, cfg |-> sent, status |-> api.observed,
          transitioning |-> "updating", message |-> MsgNone]
    ELSE EmptyCluster

\* the error Cluster.Update returns: the validation message for a config the
\* API refuses, else the error of a call that failed
UpdateErr(sent, accept) ==
    IF accept THEN NoErr
    ELSE IF ~ApiValidates(sent) THEN ErrMustBeEnabled
    ELSE "update rejected"

\* Cluster.Create: the config is validated; a valid one is accepted, unless
\* the call fails.  req has the fields securityGroups and subnets.
CreateValidates(req) == req.securityGroups => req.subnets
ErrSubnets == "subnets must be provided if security groups are provided"
CreateAnswers(req) == IF CreateValidates(req) THEN {TRUE, FALSE} ELSE {FALSE}
CreateErr(req, accept) ==
    IF accept THEN NoErr
    ELSE IF ~CreateValidates(req) THEN ErrSubnets
    ELSE "create failed"

\* the API's record of a cluster just created, and the cluster Create returns
ApiAfterCreate(cfg) ==
    [exists |-> TRUE, desired |-> cfg, observed |-> NilCfg, aws |-> NilCfg,
     transitioning |-> "provisioning", message |-> MsgNone]
CreateResp(cfg, accept) ==
    IF accept
    THEN [ID |-> ClusterID, cfg |-> cfg, status |-> NilCfg,
          transitioning |-> "provisioning", message |-> MsgNone]
    ELSE EmptyCluster

\* Cluster.ByID(id): the outcomes the read can have
ByIDOutcomes(id) == IF id = ClusterID /\ api.exists THEN {TRUE, FALSE} ELSE {FALSE}

\* the (*Cluster) Cluster.ByID returns
ByIDResp(ok) ==
    IF ok
    THEN [ID |-> ClusterID, cfg |-> api.desired, status |-> api.observed,
          transitioning |-> api.transitioning, message |-> api.message]
    ELSE EmptyCluster

\* a probe that would also write to the cluster it reads
ProbeCallsWriting ==
    /\ calls' = [calls EXCEPT !.get = @ + 1]
    /\ api' = [api EXCEPT !.transitioning = "updating"]

\* the API calls a probe makes: one Get-by-ID, nothing written
ProbeCalls ==
    /\ calls' = [calls EXCEPT !.get = @ + 1]
    /\ UNCHANGED api

\* the API call of a mutator helper, which opens a step: one Update
UpdateCall(sent, accept) ==
    /\ calls' = [update |-> 1, get |-> 0]
    /\ api' = ApiAfterUpdate(sent, accept)

(***************************************************************************)
(* Eventually(probe, timeout, interval).Should(matcher)                    *)
(***************************************************************************)
NoPoll ==
    [T |-> 0, I |-> 0, elapsed |-> 0, samples |-> 0, last |-> <<>>,
     result |-> "none", satCount |-> 0, lastAt |-> 0,
     convergedAtFirst |-> FALSE, firstRead |-> FALSE]

\* a poll that has just been entered: nothing sampled yet
NewPoll(T, I) == [NoPoll EXCEPT !.T = T, !.I = I, !.result = "polling"]

\* a poller that would sleep one interval before its first sample
NextSampleAtAfterSleep(p) == p.elapsed + p.I

\* the time of the next sample: the first is taken at once, the others one
\* interval after the one before
NextSampleAt(p) == IF p.samples = 0 THEN 0 ELSE p.elapsed + p.I

\* a poller that would still sample one interval past the deadline
CanSamplePastDeadline(p) == p.samples = 0 \/ p.elapsed <= p.T

\* the next sample is due no later than the deadline (at the deadline itself
\* the interval timer and the timeout are both ready, and either may win)
CanSample(p) == p.samples = 0 \/ p.elapsed + p.I <= p.T

\* the timeout fires before the next sample, or together with it
CanTimeOut(p) == p.samples >= 1 /\ p.elapsed + p.I >= p.T

\* a poller that would end at its first sample whatever the matcher says
EndsPollAtOnce(matched) == TRUE

\* whether the poll ends at a sample: it does when the matcher is satisfied
EndsPoll(matched) == matched

\* a timeout failure that would not show what the probe last returned
TimeoutFailureWithoutValue(p) == [kind |-> "TimeoutExceeded", actual |-> <<>>]

\* the failure a poll that ran out of time raises through Fail()
TimeoutFailure(p) == [kind |-> "TimeoutExceeded", actual |-> p.last]

NoFailure == [kind |-> "none", actual |-> <<>>]
AssertionFailure(actual) == [kind |-> "assertion", actual |-> actual]

(***************************************************************************)
(* The steps of a scenario body                                            *)
(*   op      the helper (or test-level operation) the step calls           *)
(*   args    its arguments                                                 *)
(*   onErr   what the test does with the returned error:                   *)
(*           expect_nil  Expect(err).To(BeNil())                           *)
(*           expect_err  Expect(err).To(MatchError(ContainSubstring(..)))  *)
(*           ignore      the error is dropped or never looked at           *)
(*   assign  the test assigns the returned cluster to its `cluster`        *)
(*   enter   the step is the first of a test function called with the      *)
(*           block's own cluster pointer                                   *)
(***************************************************************************)
Call(op, args, onErr, assign, enter) ==
    [op |-> op, args |-> args, onErr |-> onErr, assign |-> assign, enter |-> enter]

\* a helper called the way most tests call it:
\*   cluster, err = helper.X(cluster, ...); Expect(err).To(BeNil())
Plain(op, args) == Call(op, args, "expect_nil", TRUE, FALSE)

CurStep == scenario[step]
Args == CurStep.args
AtCall(op) == outcome = "running" /\ pc = "call" /\ CurStep.op = op

\* timeout and interval of the step's Eventually, in seconds
Window(s) ==
    CASE s.op \in {"UpgradeClusterKubernetesVersion", "UpgradeNodeKubernetesVersion"}
            -> [T |-> 15 * 60, I |-> 30]
      [] s.op \in {"AddNodeGroup", "DeleteNodeGroup", "ScaleNodeGroup"}
            -> [T |-> 15 * 60, I |-> 10]
      [] s.op \in {"UpdateLogging", "UpdateAccess", "UpdatePublicAccessSources",
                   "UpdateClusterTags", "UpdateNodegroupMetadata"}
            -> [T |-> 10 * 60, I |-> 15]
      [] OTHER -> [T |-> s.args.T, I |-> s.args.I]

AllNg(ngs, P(_)) == \A i \in 1..Len(ngs) : P(ngs[i])
AnyNg(ngs, P(_)) == \E i \in 1..Len(ngs) : P(ngs[i])

\* a probe that would want every substring in the message
ContainsAll(message, subs) == \A sub \in subs : StringsContains(message, sub)

\* strings.Contains(m, s1) || strings.Contains(m, s2)
ContainsAny(message, subs) == \E sub \in subs : StringsContains(message, sub)

\* a probe that would look at the version only
VersionShown(c, types, version) == c.status.ver = version

\* the probe of updateClusterInUpdatingState: `exists` is assigned in every
\* round of the loop over loggingTypes, so the last type decides it
BothShown(c, types, version) ==
    /\ types # <<>> /\ types[Len(types)] \in Range(c.status.logging)
    /\ c.status.ver = version

\* a probe that would not look at the message
IsInError(c, substr) == c.transitioning = "error"

\* cluster.Transitioning == "error" &&
\*     strings.Contains(cluster.TransitioningMessage, substr)
ShowsError(c, substr) ==
    c.transitioning = "error" /\ StringsContains(c.message, substr)

\* what the step's probe returns for the cluster c that ByID handed it
ProbeValue(s, c) ==
    LET a == s.args IN
    CASE s.op = "UpgradeClusterKubernetesVersion" -> c.status.ver
      [] s.op = "UpgradeNodeKubernetesVersion" ->
            AllNg(c.status.ngs, LAMBDA ng : ng.ver # Nil /\ ng.ver = a.version)
      [] s.op \in {"AddNodeGroup", "DeleteNodeGroup"} -> Len(c.status.ngs)
      [] s.op = "ScaleNodeGroup" ->
            AllNg(c.status.ngs, LAMBDA ng : ng.size = a.nodeCount)
      [] s.op = "UpdateLogging" -> c.status.logging
      [] s.op = "UpdateAccess" ->
            c.status.pub = a.pub /\ c.status.priv = a.priv
      [] s.op = "UpdatePublicAccessSources" -> c.status.sources
      [] s.op = "UpdateClusterTags" -> MapsEqual(a.tags, c.status.tags)
      [] s.op = "UpdateNodegroupMetadata" ->
            AnyNg(c.status.ngs, LAMBDA ng :
                MapsEqual(a.tags, ng.tags) /\ MapsEqual(a.labels, ng.labels))
      [] s.op = "EventuallyError" -> ShowsError(c, a.substr)
      [] s.op = "EventuallyErrorAny" ->
            c.transitioning = "error" /\ ContainsAny(c.message, a.substrs)
      [] s.op = "EventuallyNgVersion" ->
            AllNg(c.status.ngs, LAMBDA ng : ng.ver # Nil /\ ng.ver = a.version)
      [] s.op = "EventuallyBoth" -> BothShown(c, a.types, a.version)
      [] s.op = "EventuallyK8sVersion" -> c.status.ver

\* the step's matcher applied to a probe value
Matches(s, v, loc) ==
    LET a == s.args IN
    CASE s.op = "UpgradeClusterKubernetesVersion" -> v = a.version
      [] s.op = "EventuallyK8sVersion" -> v = a.version
      [] s.op = "AddNodeGroup" -> v = loc.currentNodeGroupNumber + a.increaseBy
      [] s.op = "DeleteNodeGroup" -> v = loc.currentNodeGroupNumber - 1
      [] s.op = "UpdateLogging" -> HaveExactElements(v, a.types)
      [] s.op = "UpdatePublicAccessSources" -> ContainElements(v, a.sources)
      [] OTHER -> v = TRUE

NamesMatch(ngs, list) ==
    \A i \in 1..Len(ngs) : i <= Len(list) /\ ngs[i].name = list[i].name

\* the assertions a helper makes on the cluster of the sample that ended its poll
PostCheck(s, c, loc) ==
    CASE s.op = "UpgradeClusterKubernetesVersion" ->
            AllNg(c.status.ngs, LAMBDA ng : ng.ver = loc.currentVersion)
      [] s.op \in {"AddNodeGroup", "DeleteNodeGroup"} ->
            NamesMatch(c.status.ngs, loc.updateNodeGroupsList)
      [] OTHER -> TRUE

\* whether the status the API holds now satisfies the step's predicate
Converged(s, loc) == Matches(s, ProbeValue(s, ByIDResp(TRUE)), loc)

(***************************************************************************)
(* Control: how a helper, or the test around it, goes on                   *)
(***************************************************************************)
\* Fail(): a failed assertion panics out of the spec; nothing of the body runs
\* after it.  c is the helper's `cluster`, cu the test's object, p the poll.
Abort(f, c, cu, p) ==
    /\ pc' = "done"
    /\ outcome' = "failed"
    /\ failure' = f
    /\ cluster' = c
    /\ cur' = cu
    /\ poll' = p
    /\ err' = "pending"
    /\ UNCHANGED <<step, alias>>

\* the assertions the test makes on the cluster a helper returned
TestExpect(s, c) ==
    CASE s.op = "UpdateCluster" ->
            /\ Len(c.cfg.ngs) = s.args.originalLen
            /\ AllNg(c.cfg.ngs, LAMBDA ng : ng.name = RandomNgName(1))
      [] s.op = "UpgradeClusterKubernetesVersion" /\ "echo" \in DOMAIN s.args ->
            c.cfg.ver = s.args.version
      [] s.op = "UpdateLogging" /\ "echo" \in DOMAIN s.args ->
            HaveExactElements(c.cfg.logging, s.args.types)
      [] s.op = "EventuallyK8sVersion" ->
            AllNg(c.cfg.ngs, LAMBDA ng : ng.ver = s.args.k8sVersion)
      [] s.op = "ScaleNodeGroup" /\ "k8sVersion" \in DOMAIN s.args ->
            AllNg(c.cfg.ngs, LAMBDA ng :
                ng.ver = s.args.k8sVersion /\ Len(c.cfg.ngs) = s.args.count)
      [] s.op = "AddNodeGroup" /\ "upgradeToVersion" \in DOMAIN s.args ->
            /\ c.cfg.ver = s.args.upgradeToVersion
            /\ ~HaveExactElements(c.cfg.logging, AllLoggingTypes)
      [] s.op = "UpdateLogging" /\ "upgradeToVersion" \in DOMAIN s.args ->
            /\ c.cfg.ver = s.args.upgradeToVersion
            /\ Len(c.cfg.ngs) = s.args.count
      [] s.op = "UpdateClusterTags" /\ "removed" \in DOMAIN s.args ->
            \A kv \in s.args.removed : ~HaveKeyWithValue(c.cfg.tags, kv[1], kv[2])
      [] s.op = "UpdateNodegroupMetadata" /\ "removed" \in DOMAIN s.args ->
            AllNg(c.cfg.ngs, LAMBDA ng :
                /\ \A kv \in s.args.removed : ~HaveKeyWithValue(ng.tags, kv[1], kv[2])
                /\ \A kv \in s.args.removedLabels :
                        ~HaveKeyWithValue(ng.labels, kv[1], kv[2]))
      [] OTHER -> TRUE

\* the helper returns (c, e); the test handles e as the step says and goes on
\* to the next step of the body
Return(c, e, cu, p) ==
    LET s == CurStep
        bad == \/ s.onErr = "expect_nil" /\ e # NoErr
               \/ s.onErr = "expect_err" /\ ~MatchError(e, s.args.errSubstr)
               \/ e = NoErr /\ ~TestExpect(s, c)
        assigned == IF s.assign THEN c ELSE cu
        stillAlias == alias /\ ~s.assign
    IN  /\ err' = e
        /\ cluster' = c
        /\ poll' = p
        /\ IF bad
           THEN /\ pc' = "done" /\ outcome' = "failed"
                /\ failure' = AssertionFailure(<<e>>)
                /\ step' = step /\ cur' = assigned /\ alias' = stillAlias
           ELSE IF step = Len(scenario)
           THEN /\ pc' = "done" /\ outcome' = "passed"
                /\ step' = step /\ cur' = assigned /\ alias' = stillAlias
                /\ UNCHANGED failure
           ELSE /\ pc' = "call" /\ step' = step + 1
                /\ IF scenario[step + 1].enter
                   THEN cur' = outer' /\ alias' = TRUE
                   ELSE cur' = assigned /\ alias' = stillAlias
                /\ UNCHANGED <<outcome, failure>>

GoWait(c, cu) ==
    /\ pc' = "wait"
    /\ cluster' = c
    /\ cur' = cu
    /\ err' = "pending"
    /\ UNCHANGED <<step, alias, poll, outcome, failure>>

StartPoll(c, cu, w) ==
    /\ pc' = "poll"
    /\ poll' = NewPoll(w.T, w.I)
    /\ cluster' = c
    /\ cur' = cu
    /\ err' = "pending"
    /\ UNCHANGED <<step, alias, outcome, failure>>

\* History of synchronous errors, kept by every step the test takes:
\*   syncErr   a call of the scenario has failed synchronously
\*   ranAfter  the test took a step after such a failure
\*   midUpdate the last Update came while the one before was not reconciled
NoteSyncErr(h, failed) ==
    [h EXCEPT !.ranAfter = @ \/ h.syncErr, !.syncErr = @ \/ failed]

NoHist ==
    [update |-> "none", polled |-> FALSE, syncErr |-> FALSE, ranAfter |-> FALSE,
     midUpdate |-> FALSE]

\* A mutator helper from its in-place edit of the caller's object to the point
\* where it returns, fails an assertion, or starts to wait or to poll:
\*   sent    the EKSConfig after the edit, which Update submits
\*   accept  whether the API accepts it
\*   next    how the helper goes on: abort, return, wait, poll
\*   e       the error it returns when it returns
\*   loc     the values it captured before the edit
Submit(sent, accept, next, e, loc) ==
    LET resp == UpdateResp(sent, accept)
        cu == [cur EXCEPT !.cfg = sent]
    IN  /\ UpdateCall(sent, accept)
        /\ outer' = IF alias THEN [outer EXCEPT !.cfg = sent] ELSE outer
        /\ locals' = loc
        /\ hist' = NoteSyncErr([hist EXCEPT !.update = IF accept THEN "accepted"
                                                           ELSE "rejected",
                                            !.polled = (next = "poll"),
                                            !.midUpdate =
                                                /\ api.transitioning = "updating"
                                                /\ api.observed # Provisioned(api.desired)],
                               ~accept)
        /\ CASE next = "abort" ->
                    Abort(AssertionFailure(<<UpdateErr(sent, accept)>>), resp, cu, poll)
             [] next = "return" -> Return(resp, e, cu, poll)
             [] next = "wait" -> GoWait(resp, cu)
             [] next = "poll" -> StartPoll(resp, cu, Window(CurStep))
        /\ UNCHANGED <<scenario, cliVars, suiteVars, chartVars>>

\* the course of a helper that asserts Expect(err).To(BeNil()) after Update,
\* checks the echoed config when checkClusterConfig is set, waits when wait is
\* set and polls when checkClusterConfig is set
Course(accept, desiredOk, wait, check) ==
    IF ~accept THEN "abort"
    ELSE IF ~desiredOk THEN "abort"
    ELSE IF wait THEN "wait"
    ELSE IF check THEN "poll"
    ELSE "return"

NoLocals ==
    [currentVersion |-> Nil, currentNodeGroupNumber |-> 0,
     updateNodeGroupsList |-> <<>>]

(***************************************************************************)
(* The mutator helpers of helper_cluster.go                                *)
(***************************************************************************)
SetNgs(cfg, F(_)) == [cfg EXCEPT !.ngs = [i \in 1..Len(cfg.ngs) |-> F(cfg.ngs[i])]]

\* an edit that would upgrade the node groups along with the control plane
UpgradedWithNodeGroups(cfg, upgradeToVersion) ==
    [cfg EXCEPT !.ver = upgradeToVersion,
                !.ngs = [i \in 1..Len(cfg.ngs) |->
                            [cfg.ngs[i] EXCEPT !.ver = upgradeToVersion]]]

\* upgradedCluster.EKSConfig.KubernetesVersion = &upgradeToVersion
UpgradedTo(cfg, upgradeToVersion) == [cfg EXCEPT !.ver = upgradeToVersion]

UpgradeClusterKubernetesVersion ==
    /\ AtCall("UpgradeClusterKubernetesVersion")
    /\ LET a == Args
           currentVersion == cur.cfg.ver
           sent == UpgradedTo(cur.cfg, a.version)
       IN \E accept \in UpdateOutcomes(cur, sent) :
            LET resp == UpdateResp(sent, accept)
                desiredOk == a.check =>
                    /\ resp.cfg.ver = a.version
                    /\ AllNg(resp.cfg.ngs, LAMBDA ng : ng.ver = currentVersion)
            IN Submit(sent, accept, Course(accept, desiredOk, FALSE, a.check), NoErr,
                      [NoLocals EXCEPT !.currentVersion = currentVersion])

UpgradeNodeKubernetesVersion ==
    /\ AtCall("UpgradeNodeKubernetesVersion")
    /\ LET a == Args
           sent == SetNgs(cur.cfg, LAMBDA ng : [ng EXCEPT !.ver = a.version])
       IN \E accept \in UpdateOutcomes(cur, sent) :
            LET resp == UpdateResp(sent, accept)
                desiredOk == AllNg(resp.cfg.ngs, LAMBDA ng : ng.ver = a.version)
            IN Submit(sent, accept, Course(accept, desiredOk, a.wait, a.check), NoErr,
                      NoLocals)

\* the node group AddNodeGroup builds from the template for its i-th round
NewNodeGroup(i) ==
    [name |-> RandomNgName(i), ver |-> Nil, size |-> TemplateNG.size,
     max |-> TemplateNG.max, tags |-> {}, labels |-> {}]

\* a loop that would put each round's group behind the list
AppendedNodeGroups(ngs, increaseBy) ==
    ngs \o [i \in 1..increaseBy |-> NewNodeGroup(i)]

\* updateNodeGroupsList after the loop: each round puts its group in front
PrependedNodeGroups(ngs, increaseBy) ==
    [i \in 1..(increaseBy + Len(ngs)) |->
        IF i <= increaseBy THEN NewNodeGroup(increaseBy - i + 1)
        ELSE ngs[i - increaseBy]]

AddNodeGroup ==
    /\ AtCall("AddNodeGroup")
    /\ LET a == Args
           currentNodeGroupNumber == Len(cur.cfg.ngs)
           updateNodeGroupsList == PrependedNodeGroups(cur.cfg.ngs, a.increaseBy)
           sent == [cur.cfg EXCEPT !.ngs = updateNodeGroupsList]
       IN \E accept \in UpdateOutcomes(cur, sent) :
            LET resp == UpdateResp(sent, accept)
                desiredOk == a.check =>
                    /\ Len(resp.cfg.ngs) = currentNodeGroupNumber + a.increaseBy
                    /\ NamesMatch(resp.cfg.ngs, updateNodeGroupsList)
            IN Submit(sent, accept, Course(accept, desiredOk, a.wait, a.check), NoErr,
                      [NoLocals EXCEPT
                          !.currentNodeGroupNumber = currentNodeGroupNumber,
                          !.updateNodeGroupsList = updateNodeGroupsList])

DeleteNodeGroup ==
    /\ AtCall("DeleteNodeGroup")
    /\ LET a == Args
           currentNodeGroupNumber == Len(cur.cfg.ngs)
           updateNodeGroupsList == SubSeq(cur.cfg.ngs, 1, 1)
           sent == [cur.cfg EXCEPT !.ngs = updateNodeGroupsList]
       IN \E accept \in UpdateOutcomes(cur, sent) :
            LET resp == UpdateResp(sent, accept)
                desiredOk == a.check =>
                    /\ Len(resp.cfg.ngs) = currentNodeGroupNumber - 1
                    /\ NamesMatch(resp.cfg.ngs, updateNodeGroupsList)
            IN Submit(sent, accept, Course(accept, desiredOk, a.wait, a.check), NoErr,
                      [NoLocals EXCEPT
                          !.currentNodeGroupNumber = currentNodeGroupNumber,
                          !.updateNodeGroupsList = updateNodeGroupsList])

\* an edit that would scale the first node group only
ScaleFirstTo(cfg, nodeCount) ==
    [cfg EXCEPT !.ngs[1].size = nodeCount, !.ngs[1].max = nodeCount]

\* the loop of ScaleNodeGroup: DesiredSize and MaxSize of every node group
ScaleTo(cfg, nodeCount) ==
    SetNgs(cfg, LAMBDA ng : [ng EXCEPT !.size = nodeCount, !.max = nodeCount])

ScaleNodeGroup ==
    /\ AtCall("ScaleNodeGroup")
    /\ LET a == Args
           sent == ScaleTo(cur.cfg, a.nodeCount)
       IN \E accept \in UpdateOutcomes(cur, sent) :
            LET resp == UpdateResp(sent, accept)
                desiredOk == a.check =>
                    AllNg(resp.cfg.ngs, LAMBDA ng : ng.size = a.nodeCount)
            IN Submit(sent, accept, Course(accept, desiredOk, a.wait, a.check), NoErr,
                      NoLocals)

UpdateLogging ==
    /\ AtCall("UpdateLogging")
    /\ LET a == Args
           sent == [cur.cfg EXCEPT !.logging = a.types]
       IN \E accept \in UpdateOutcomes(cur, sent) :
            LET desiredOk == a.check => HaveExactElements(sent.logging, a.types)
            IN Submit(sent, accept, Course(accept, desiredOk, FALSE, a.check), NoErr,
                      NoLocals)

\* err is not looked at before the poll, and is what the helper returns
UpdateAccess ==
    /\ AtCall("UpdateAccess")
    /\ LET a == Args
           sent == [cur.cfg EXCEPT !.pub = a.pub, !.priv = a.priv]
       IN \E accept \in UpdateOutcomes(cur, sent) :
            Submit(sent, accept, IF a.check THEN "poll" ELSE "return",
                   UpdateErr(sent, accept), NoLocals)

\* err is not looked at, and the helper returns nil in its place
UpdatePublicAccessSources ==
    /\ AtCall("UpdatePublicAccessSources")
    /\ LET a == Args
           sent == [cur.cfg EXCEPT !.sources = @ \o a.sources]
       IN \E accept \in UpdateOutcomes(cur, sent) :
            LET desiredOk == a.check => ContainElements(sent.sources, a.sources)
            IN Submit(sent, accept,
                      IF ~desiredOk THEN "abort"
                      ELSE IF a.check THEN "poll" ELSE "return",
                      NoErr, NoLocals)

UpdateClusterTags ==
    /\ AtCall("UpdateClusterTags")
    /\ LET a == Args
           sent == [cur.cfg EXCEPT !.tags = a.tags]
       IN \E accept \in UpdateOutcomes(cur, sent) :
            LET resp == UpdateResp(sent, accept)
                desiredOk == a.check =>
                    \A kv \in a.tags : HaveKeyWithValue(resp.cfg.tags, kv[1], kv[2])
            IN Submit(sent, accept, Course(accept, desiredOk, FALSE, a.check), NoErr,
                      NoLocals)

UpdateNodegroupMetadata ==
    /\ AtCall("UpdateNodegroupMetadata")
    /\ LET a == Args
           sent == SetNgs(cur.cfg, LAMBDA ng :
                       [ng EXCEPT !.tags = a.tags, !.labels = a.labels])
       IN \E accept \in UpdateOutcomes(cur, sent) :
            LET resp == UpdateResp(sent, accept)
                desiredOk == a.check =>
                    AllNg(resp.cfg.ngs, LAMBDA ng :
                        /\ \A kv \in a.tags : HaveKeyWithValue(ng.tags, kv[1], kv[2])
                        /\ \A kv \in a.labels : HaveKeyWithValue(ng.labels, kv[1], kv[2]))
            IN Submit(sent, accept, Course(accept, desiredOk, FALSE, a.check), NoErr,
                      NoLocals)

\* updateFunc of upgradeCPAndAddNgCheck: the node groups are replaced by one
\* group built from the template under a fresh name
ReplaceNodeGroups(cfg) ==
    [cfg EXCEPT !.ngs = <<[TemplateNG EXCEPT !.name = RandomNgName(1)]>>]

\* UpdateCluster returns what Cluster.Update returns
UpdateCluster ==
    /\ AtCall("UpdateCluster")
    /\ LET sent == ReplaceNodeGroups(cur.cfg)
       IN \E accept \in UpdateOutcomes(cur, sent) :
            Submit(sent, accept, "return", UpdateErr(sent, accept), NoLocals)

\* CreateEKSHostedCluster: the config of the CATTLE_TEST_CONFIG file, edited
\* by updateFunc, is submitted; the test assigns what the call returns
CreateEKSHostedCluster ==
    /\ AtCall("CreateEKSHostedCluster")
    /\ \E accept \in CreateAnswers(Args) :
        /\ api' = IF accept THEN ApiAfterCreate(Args.cfg) ELSE api
        /\ calls' = [update |-> 0, get |-> 0]
        /\ hist' = NoteSyncErr([hist EXCEPT !.update = "none", !.polled = FALSE],
                               ~accept)
        /\ Return(CreateResp(Args.cfg, accept), CreateErr(Args, accept), cur, poll)
    /\ UNCHANGED <<outer, locals, scenario, cliVars, suiteVars, chartVars>>

(***************************************************************************)
(* Waiting and polling                                                     *)
(***************************************************************************)
TestLevelPolls ==
    {"EventuallyError", "EventuallyErrorAny", "EventuallyNgVersion", "EventuallyBoth",
     "EventuallyK8sVersion"}

\* helper.UpgradeEKSClusterOnAWS(region, clusterName, upgradeToVersion), called
\* by the test: the control plane is upgraded at the provider, or the command
\* fails; Expect(err).To(BeNil()) follows it
UpgradeControlPlaneOnAWS ==
    /\ AtCall("UpgradeEKSClusterOnAWS")
    /\ \E ok \in (IF api.exists THEN {TRUE, FALSE} ELSE {FALSE}) :
        /\ api' = IF ok THEN [api EXCEPT !.aws.ver = Args.version] ELSE api
        /\ calls' = [update |-> 0, get |-> 0]
        /\ hist' = NoteSyncErr([hist EXCEPT !.update = "none", !.polled = FALSE], ~ok)
        /\ IF ~ok THEN Abort(AssertionFailure(<<"cli failed">>), cluster, cur, poll)
           ELSE Return(cur, NoErr, cur, poll)
    /\ UNCHANGED <<outer, locals, scenario, cliVars, suiteVars, chartVars>>

\* what `eksctl get ... -ojson | jq -r query` prints for the provider's state:
\* one line per value the query selects
EKSQuery(aws, query) ==
    CASE query = "cluster.Version" -> <<aws.ver>>
      [] query = "nodegroup.length" -> <<Len(aws.ngs)>>
      [] query = "nodegroup.DesiredCapacity" ->
            [i \in 1..Len(aws.ngs) |-> aws.ngs[i].size]
      [] query = "cluster.Logging.Types" -> <<aws.logging>>

\* Expect(out).To(Equal(want)), Expect(strconv.Atoi(out)).To(Equal(want)): the
\* output is the one line that reads want
OutputIs(out, want) == Len(out) = 1 /\ out[1] = want

\* helper.GetFromEKS and the assertions of the test on what it returned; on
\* the logging types the test asserts ShouldNot(HaveExactElements(..)) of the
\* output string, which no string fails
ReadFromEKS ==
    /\ AtCall("GetFromEKS")
    /\ \E ok \in (IF api.exists THEN {TRUE, FALSE} ELSE {FALSE}) :
        LET out == EKSQuery(api.aws, Args.query)
            good == ok /\ (Args.query = "cluster.Logging.Types"
                            \/ OutputIs(out, Args.want))
        IN  /\ calls' = [update |-> 0, get |-> 0]
            /\ hist' = NoteSyncErr([hist EXCEPT !.update = "none", !.polled = FALSE],
                                   ~ok)
            /\ IF ~good THEN Abort(AssertionFailure(out), cluster, cur, poll)
               ELSE Return(cur, NoErr, cur, poll)
    /\ UNCHANGED <<api, outer, locals, scenario, cliVars, suiteVars, chartVars>>

\* clusters.WaitClusterToBeUpgraded(client, cluster.ID), called by a helper
\* (wait = true) or by the test itself: nil once the cluster is active again,
\* an error when the watch gives up; Expect(err).To(BeNil()) follows it.
WaitClusterToBeUpgraded ==
    /\ outcome = "running"
    /\ pc = "wait" \/ (pc = "call" /\ CurStep.op = "WaitClusterToBeUpgraded")
    /\ UNCHANGED <<outer, locals, scenario, cliVars, suiteVars, chartVars>>
    /\ \E ok \in (IF api.transitioning = "active" THEN {TRUE, FALSE} ELSE {FALSE}) :
        /\ UNCHANGED api
        /\ calls' = IF pc = "call" THEN [update |-> 0, get |-> 0] ELSE calls
        /\ hist' = IF pc = "call"
                   THEN NoteSyncErr([hist EXCEPT !.update = "none", !.polled = FALSE], ~ok)
                   ELSE NoteSyncErr([hist EXCEPT !.polled = ok /\ Args.check], ~ok)
        /\ IF ~ok THEN Abort(AssertionFailure(<<"wait failed">>), cluster, cur, poll)
           ELSE IF pc = "call" THEN Return(cur, NoErr, cur, poll)
           ELSE IF Args.check THEN StartPoll(cluster, cur, Window(CurStep))
           ELSE Return(cluster, NoErr, cur, poll)

\* clusters.WaitClusterToBeInUpgrade(client, cluster.ID), called by the test:
\* nil once the cluster is seen updating, an error when the watch gives up
WaitClusterToBeInUpgrade ==
    /\ AtCall("WaitClusterToBeInUpgrade")
    /\ \E ok \in (IF api.transitioning = "updating" THEN {TRUE, FALSE} ELSE {FALSE}) :
        /\ calls' = [update |-> 0, get |-> 0]
        /\ hist' = NoteSyncErr([hist EXCEPT !.update = "none", !.polled = FALSE], ~ok)
        /\ IF ~ok THEN Abort(AssertionFailure(<<"wait failed">>), cluster, cur, poll)
           ELSE Return(cur, NoErr, cur, poll)
    /\ UNCHANGED <<api, outer, locals, scenario, cliVars, suiteVars, chartVars>>

\* Eventually(...) in a test function: the poll is entered
Eventually ==
    /\ outcome = "running" /\ pc = "call" /\ CurStep.op \in TestLevelPolls
    /\ StartPoll(cur, cur, Window(CurStep))
    /\ hist' = NoteSyncErr([hist EXCEPT !.update = "none", !.polled = FALSE], FALSE)
    /\ calls' = [update |-> 0, get |-> 0]
    /\ UNCHANGED <<api, outer, locals, scenario, cliVars, suiteVars, chartVars>>

\* One sample: the probe reads the cluster by ID, asserts the read succeeded
\* and returns its value; the matcher decides whether the poll ends.
PollSample ==
    /\ outcome = "running" /\ pc = "poll" /\ CanSample(poll)
    /\ UNCHANGED <<outer, locals, scenario, cliVars, suiteVars, chartVars>>
    /\ \E ok \in ByIDOutcomes(cluster.ID) :
        LET s == CurStep
            t == NextSampleAt(poll)
            c == ByIDResp(ok)
            v == ProbeValue(s, c)
            sat == ok /\ Matches(s, v, locals)
            p1 == [poll EXCEPT
                      !.elapsed = t, !.samples = @ + 1, !.lastAt = t,
                      !.convergedAtFirst =
                          IF poll.samples = 0 THEN Converged(s, locals) ELSE @,
                      !.firstRead = IF poll.samples = 0 THEN ok ELSE @]
            p2 == [p1 EXCEPT !.last = <<v>>,
                             !.satCount = IF sat THEN @ + 1 ELSE @]
        IN  /\ ProbeCalls
            /\ hist' = NoteSyncErr(hist, ~ok)
            /\ IF ~ok
               THEN Abort(AssertionFailure(<<"get failed">>), c, cur,
                          [p1 EXCEPT !.result = "aborted"])
               ELSE IF EndsPoll(sat)
               THEN IF PostCheck(s, c, locals)
                    THEN Return(c, NoErr, cur, [p2 EXCEPT !.result = "success"])
                    ELSE Abort(AssertionFailure(<<"post check">>), c, cur,
                               [p2 EXCEPT !.result = "success"])
               ELSE /\ poll' = p2
                    /\ cluster' = c
                    /\ UNCHANGED <<pc, step, cur, alias, err, outcome, failure>>

\* The deadline passes before a sample satisfied the matcher: the poll fails
\* the test, and the failure shows the last value the probe returned.
PollTimeout ==
    /\ outcome = "running" /\ pc = "poll" /\ CanTimeOut(poll)
    /\ Abort(TimeoutFailure(poll), cluster, cur,
             [poll EXCEPT !.elapsed = poll.T, !.result = "timeout"])
    /\ hist' = NoteSyncErr(hist, FALSE)
    /\ UNCHANGED <<api, calls, outer, locals, scenario, cliVars, suiteVars, chartVars>>

(***************************************************************************)
(* The control plane, reconciling in the background                        *)
(***************************************************************************)
\* the provider applied the desired configuration; the upstream spec shows it
Reconcile ==
    /\ outcome = "running" /\ api.exists
    /\ api.transitioning # "error"
    /\ ProviderProblem(api.desired) = MsgNone
    /\ api.observed # Provisioned(api.desired)
    /\ api' = [api EXCEPT !.observed = Provisioned(api.desired),
                          !.aws = Provisioned(api.desired)]
    /\ UNCHANGED <<outer, cur, alias, scenario, step, pc, cluster, err, locals,
                   poll, outcome, failure, calls, hist, cliVars, suiteVars, chartVars>>

\* the provider applied the desired configuration of one node group it already
\* has: node groups are resources of their own and the upstream spec shows
\* each of them as it is, so a read can see some updated and others not yet
ReconcileNodeGroup ==
    /\ outcome = "running" /\ api.exists
    /\ api.transitioning # "error"
    /\ ProviderProblem(api.desired) = MsgNone
    /\ Len(api.observed.ngs) = Len(api.desired.ngs)
    /\ \E i \in 1..Len(api.desired.ngs) :
        /\ api.observed.ngs[i].name = api.desired.ngs[i].name
        /\ api.observed.ngs[i] # Provisioned(api.desired).ngs[i]
        /\ api' = [api EXCEPT
                      !.observed.ngs[i] = Provisioned(api.desired).ngs[i],
                      !.aws.ngs = [api.observed.ngs EXCEPT
                                      ![i] = Provisioned(api.desired).ngs[i]]]
    /\ UNCHANGED <<outer, cur, alias, scenario, step, pc, cluster, err, locals,
                   poll, outcome, failure, calls, hist, cliVars, suiteVars, chartVars>>

\* the config Rancher holds once it has seen the provider's state aws where
\* its upstream spec showed observed: the fields changed at the provider take
\* the provider's values
SyncedConfig(desired, observed, aws) ==
    [f \in DOMAIN desired |-> IF aws[f] # observed[f] THEN aws[f] ELSE desired[f]]

\* Rancher refreshes the cluster from the provider after a change made there:
\* the upstream spec shows the provider's state and EKSConfig follows it
RefreshUpstream ==
    /\ outcome = "running" /\ api.exists
    /\ api.aws # api.observed
    /\ api' = [api EXCEPT !.observed = api.aws,
                          !.desired = SyncedConfig(api.desired, api.observed, api.aws)]
    /\ UNCHANGED <<outer, cur, alias, scenario, step, pc, cluster, err, locals,
                   poll, outcome, failure, calls, hist, cliVars, suiteVars, chartVars>>

\* the cluster leaves the updating state
Settle ==
    /\ outcome = "running" /\ api.exists
    /\ api.transitioning \in {"updating", "provisioning"}
    /\ ProviderProblem(api.desired) = MsgNone
    /\ api' = [api EXCEPT !.transitioning = "active"]
    /\ UNCHANGED <<outer, cur, alias, scenario, step, pc, cluster, err, locals,
                   poll, outcome, failure, calls, hist, cliVars, suiteVars, chartVars>>

\* the provider refused the desired configuration
ReconcileError ==
    /\ outcome = "running" /\ api.exists
    /\ api.transitioning # "error"
    /\ ProviderProblem(api.desired) # MsgNone
    /\ \E m \in ProviderMessages(api.desired) :
        api' = [api EXCEPT !.transitioning = "error", !.message = m]
    /\ UNCHANGED <<outer, cur, alias, scenario, step, pc, cluster, err, locals,
                   poll, outcome, failure, calls, hist, cliVars, suiteVars, chartVars>>

(***************************************************************************)
(* The process environment and the provider CLI                            *)
(***************************************************************************)
\* the environment variables the helpers read and write: KUBECONFIG and the
\* variable helpers.DownstreamKubeconfig(clusterName) names
EnvNames == {"KUBECONFIG", "DOWNSTREAM_KUBECONFIG"}

Unset == [set |-> FALSE, value |-> ""]
EnvValue(v) == [set |-> TRUE, value |-> v]

\* os.Getenv: the value, "" for a variable that is not set
Getenv(env, k) == IF env[k].set THEN env[k].value ELSE ""
\* os.Setenv
Setenv(env, k, v) == [env EXCEPT ![k] = EnvValue(v)]
\* os.Remove
Remove(fs, path) == fs \ {path}

TempKubeconfig == "/tmp/cluster-kubeconfig"

\* errors: an error is the chain of its annotations, outermost first; each
\* layer carries its message and the command output appended to it, if any
NoOutput == <<"no output">>
NilError == <<>>
ExitError == <<[msg |-> "exit status 1", out |-> NoOutput]>>
\* errors.Wrap(err, msg + out)
ErrorsWrap(e, msg, out) == <<[msg |-> msg, out |-> out]>> \o e

\* Command output: the sequence of its lines' texts and line ends
NL == "\n"
RECURSIVE TrimLeft(_)
TrimLeft(out) ==
    IF out # <<>> /\ Head(out) = NL THEN TrimLeft(Tail(out)) ELSE out
RECURSIVE TrimRight(_)
TrimRight(out) ==
    IF out # <<>> /\ out[Len(out)] = NL
    THEN TrimRight(SubSeq(out, 1, Len(out) - 1)) ELSE out
\* strings.TrimSpace
TrimSpace(out) == TrimRight(TrimLeft(out))

\* strings.Split(s, "\n"): the texts between the line ends, "" where two
\* line ends meet
RECURSIVE StringsSplit(_, _)
StringsSplit(out, piece) ==
    IF out = <<>> THEN <<piece>>
    ELSE IF Head(out) = NL THEN <<piece>> \o StringsSplit(Tail(out), "")
    ELSE StringsSplit(Tail(out), Head(out))

\* proc.RunW: what a command can do, its combined output and its error
FailedRun == [ok |-> FALSE, out |-> <<"Error: AccessDenied", NL>>, err |-> ExitError]
RunOutcomes == {[ok |-> TRUE, out |-> <<"done", NL>>, err |-> NilError], FailedRun}

\* what `eksctl get nodegroup ... | jq -r .[].Name` can print
ListOutcomes ==
    {[ok |-> TRUE, out |-> o, err |-> NilError] :
        o \in {<<>>, <<NL>>, <<"ng-a", NL>>, <<"ng-a", NL, "ng-b", NL>>}}
    \cup {FailedRun}

\* no helper running
NoProc ==
    [fn |-> "none", pc |-> "idle", currentKubeconfig |-> "",
     downstreamKubeconfig |-> "", ngNames |-> <<>>, ret |-> NilError,
     out |-> <<>>, entry |-> Unset, path |-> "none", captured |-> NoOutput,
     swapped |-> FALSE]

\* the CLI side at rest, while a scenario of Spec runs
CliIdle ==
    /\ environ = [k \in EnvNames |-> Unset]
    /\ files = {}
    /\ proc = NoProc

\* a helper returns e (and out), having left through `path`; captured is the
\* output of the invocation that failed, if one did
Returned(p, e, out, path, captured) ==
    [p EXCEPT !.pc = "returned", !.ret = e, !.out = out, !.path = path,
              !.captured = captured]

\* a helper that runs one eksctl command returns after the run r: nil, or the
\* command's error wrapped with msg and the output
RunAndWrap(fn, msg, r) ==
    Returned([proc EXCEPT !.fn = fn, !.entry = environ["KUBECONFIG"]],
             IF r.ok THEN NilError ELSE ErrorsWrap(r.err, msg, r.out),
             <<>>,
             IF r.ok THEN "normal" ELSE "cli_failure",
             IF r.ok THEN NoOutput ELSE r.out)

\* helpers.SetTempKubeConfig(clusterName): a temporary file is created and
\* KUBECONFIG and the downstream variable are pointed at it; when the file
\* cannot be created its assertion fails and panics out of the caller
SetTempKubeConfigOutcomes == {"set", "panic"}
SetTempKubeConfigEnv(env, o) ==
    IF o = "set"
    THEN Setenv(Setenv(env, "DOWNSTREAM_KUBECONFIG", TempKubeconfig),
                "KUBECONFIG", TempKubeconfig)
    ELSE env
SetTempKubeConfigFiles(fs, o) ==
    IF o = "set" THEN fs \cup {TempKubeconfig} ELSE fs

\* a helper whose deferred call would not run
DeferredSetenvSkipped(env, currentKubeconfig) == env

\* defer os.Setenv("KUBECONFIG", currentKubeconfig): runs on return and on panic
DeferredSetenv(env, currentKubeconfig) == Setenv(env, "KUBECONFIG", currentKubeconfig)

\* CreateEKSClusterOnAWS up to the eksctl command: KUBECONFIG is read, its
\* restoration deferred, and the temporary kubeconfig set
CreateEKSClusterOnAWS ==
    /\ proc.pc = "idle"
    /\ LET currentKubeconfig == Getenv(environ, "KUBECONFIG")
           p == [proc EXCEPT !.fn = "CreateEKSClusterOnAWS",
                             !.entry = environ["KUBECONFIG"],
                             !.currentKubeconfig = currentKubeconfig]
       IN \E o \in SetTempKubeConfigOutcomes :
            /\ files' = SetTempKubeConfigFiles(files, o)
            /\ IF o = "panic"
               THEN /\ environ' = DeferredSetenv(SetTempKubeConfigEnv(environ, o),
                                                 currentKubeconfig)
                    /\ proc' = [p EXCEPT !.pc = "panicked", !.path = "panic"]
               ELSE /\ environ' = SetTempKubeConfigEnv(environ, o)
                    /\ proc' = [p EXCEPT !.pc = "create_run",
                                         !.swapped = Getenv(environ', "KUBECONFIG")
                                                        # currentKubeconfig]
    /\ UNCHANGED <<scenarioVars, suiteVars, chartVars>>

\* CreateEKSClusterOnAWS from `eksctl create cluster` to its return
CreateEKSClusterOnAWSRun ==
    /\ proc.pc = "create_run"
    /\ \E r \in RunOutcomes :
        proc' = Returned(proc,
                         IF r.ok THEN NilError
                         ELSE ErrorsWrap(r.err, "Failed to create cluster: ", r.out),
                         <<>>,
                         IF r.ok THEN "normal" ELSE "cli_failure",
                         IF r.ok THEN NoOutput ELSE r.out)
    /\ environ' = DeferredSetenv(environ, proc.currentKubeconfig)
    /\ UNCHANGED <<files, scenarioVars, suiteVars, chartVars>>

UpgradeEKSClusterOnAWS ==
    /\ proc.pc = "idle"
    /\ \E r \in RunOutcomes :
        proc' = RunAndWrap("UpgradeEKSClusterOnAWS", "Failed to upgrade cluster: ", r)
    /\ UNCHANGED <<environ, files, scenarioVars, suiteVars, chartVars>>

AddNodeGroupOnAWS ==
    /\ proc.pc = "idle"
    /\ \E r \in RunOutcomes :
        proc' = RunAndWrap("AddNodeGroupOnAWS", "Failed to add nodegroup: ", r)
    /\ UNCHANGED <<environ, files, scenarioVars, suiteVars, chartVars>>

UpgradeEKSNodegroupOnAWS ==
    /\ proc.pc = "idle"
    /\ \E r \in RunOutcomes :
        proc' = RunAndWrap("UpgradeEKSNodegroupOnAWS", "Failed to upgrade nodegroup: ", r)
    /\ UNCHANGED <<environ, files, scenarioVars, suiteVars, chartVars>>

\* what GetFromEKS returns for the run r of its command: the trimmed output
\* and the command's error as it is
GetFromEKSOut(r) == TrimSpace(r.out)
GetFromEKSErr(r) == r.err

GetFromEKS ==
    /\ proc.pc = "idle"
    /\ \E r \in ListOutcomes :
        proc' = Returned([proc EXCEPT !.fn = "GetFromEKS",
                                      !.entry = environ["KUBECONFIG"]],
                         GetFromEKSErr(r), GetFromEKSOut(r),
                         IF r.ok THEN "normal" ELSE "cli_failure",
                         IF r.ok THEN NoOutput ELSE r.out)
    /\ UNCHANGED <<environ, files, scenarioVars, suiteVars, chartVars>>

\* what ModifyEKSNodegroupOnAWS returns for the run r of its command
ModifyEKSNodegroupErr(r) ==
    IF r.ok THEN NilError ELSE ErrorsWrap(r.err, "Failed to modify nodegroup: ", r.out)

ModifyEKSNodegroupOnAWS ==
    /\ proc.pc = "idle"
    /\ \E r \in RunOutcomes :
        proc' = RunAndWrap("ModifyEKSNodegroupOnAWS", "Failed to modify nodegroup: ", r)
    /\ UNCHANGED <<environ, files, scenarioVars, suiteVars, chartVars>>

\* the deferred function of DeleteEKSClusterOnAWS: KUBECONFIG is set back and
\* the downstream kubeconfig file removed
DeleteDeferredEnv(env, currentKubeconfig) == DeferredSetenv(env, currentKubeconfig)
DeleteDeferredFiles(fs, downstreamKubeconfig) == Remove(fs, downstreamKubeconfig)

\* DeleteEKSClusterOnAWS returns e
DeleteReturns(e, path, captured) ==
    /\ proc' = Returned([proc EXCEPT !.ngNames = <<>>], e, <<>>, path, captured)
    /\ environ' = DeleteDeferredEnv(environ, proc.currentKubeconfig)
    /\ files' = DeleteDeferredFiles(files, proc.downstreamKubeconfig)

\* DeleteEKSClusterOnAWS up to its first command: KUBECONFIG is switched to the
\* downstream kubeconfig, its restoration deferred
DeleteEKSClusterOnAWS ==
    /\ proc.pc = "idle"
    /\ LET currentKubeconfig == Getenv(environ, "KUBECONFIG")
           downstreamKubeconfig == Getenv(environ, "DOWNSTREAM_KUBECONFIG")
       IN /\ environ' = Setenv(environ, "KUBECONFIG", downstreamKubeconfig)
          /\ proc' = [proc EXCEPT !.fn = "DeleteEKSClusterOnAWS",
                                  !.pc = "delete_list",
                                  !.entry = environ["KUBECONFIG"],
                                  !.currentKubeconfig = currentKubeconfig,
                                  !.downstreamKubeconfig = downstreamKubeconfig,
                                  !.swapped = downstreamKubeconfig # currentKubeconfig]
    /\ UNCHANGED <<files, scenarioVars, suiteVars, chartVars>>

\* ngNames, err := GetFromEKS(region, clusterName, "nodegroup", ".[].Name")
DeleteListNodegroups ==
    /\ proc.pc = "delete_list"
    /\ \E r \in ListOutcomes :
        LET ngNames == GetFromEKSOut(r)
            e == GetFromEKSErr(r)
        IN IF e # NilError
           THEN DeleteReturns(ErrorsWrap(e, "Failed to list nodegroup for deletion",
                                         NoOutput),
                              "list_failure", r.out)
           ELSE /\ proc' = [proc EXCEPT
                               !.pc = "delete_ngs",
                               !.ngNames = IF ngNames # <<>>
                                           THEN StringsSplit(ngNames, "") ELSE <<>>]
                /\ UNCHANGED <<environ, files>>
    /\ UNCHANGED <<scenarioVars, suiteVars, chartVars>>

\* one round of the loop over ngNames: the node group is deleted
DeleteNodegroups ==
    /\ proc.pc = "delete_ngs" /\ proc.ngNames # <<>>
    /\ \E r \in RunOutcomes :
        LET e == ModifyEKSNodegroupErr(r)
        IN IF e # NilError
           THEN DeleteReturns(ErrorsWrap(e, "Failed to delete nodegroup", NoOutput),
                              "ng_failure", r.out)
           ELSE /\ proc' = [proc EXCEPT !.ngNames = Tail(@)]
                /\ UNCHANGED <<environ, files>>
    /\ UNCHANGED <<scenarioVars, suiteVars, chartVars>>

\* DeleteEKSClusterOnAWS from `eksctl delete cluster` to its return
DeleteCluster ==
    /\ proc.pc = "delete_ngs" /\ proc.ngNames = <<>>
    /\ \E r \in RunOutcomes :
        DeleteReturns(IF r.ok THEN NilError
                      ELSE ErrorsWrap(r.err, "Failed to delete cluster: ", r.out),
                      IF r.ok THEN "normal" ELSE "cli_failure",
                      IF r.ok THEN NoOutput ELSE r.out)
    /\ UNCHANGED <<scenarioVars, suiteVars, chartVars>>

(***************************************************************************)
(* The suite lifecycle: BeforeEach, It, AfterEach                          *)
(***************************************************************************)
\* a *management.Cluster variable: nil, or a cluster with its ID.  IDs are
\* numbers: 0 is the empty ID, n the cluster the n-th spec of the run created
NilHandle == [nil |-> TRUE, ID |-> 0]
Handle(id) == [nil |-> FALSE, ID |-> id]

\* the table of part_000
P0Table ==
    {[qaseID |-> 8, isUpgrade |-> FALSE, regional |-> FALSE],
     [qaseID |-> 11, isUpgrade |-> TRUE, regional |-> FALSE],
     [qaseID |-> 300, isUpgrade |-> FALSE, regional |-> TRUE],
     [qaseID |-> 301, isUpgrade |-> TRUE, regional |-> TRUE]}

\* A spec: where its cluster is set up, and the shape of the set-up:
\*   create_only      the cluster is created and polled for an error state
\*   create_rejected  the API is expected to reject the creation
\*   create_wait      the cluster is created and waited ready
SpecOf(file, qaseID, isUpgrade, regional, setup, shape) ==
    [file |-> file, qaseID |-> qaseID, isUpgrade |-> isUpgrade,
     regional |-> regional, setup |-> setup, shape |-> shape]

P0Specs ==
    {SpecOf("part_000", t.qaseID, t.isUpgrade, t.regional, "BeforeEach", "create_wait") :
        t \in P0Table}

P1Specs ==
    {SpecOf("part_001", q, FALSE, FALSE, "It", "create_only") : q \in {141, 255, 127}}
    \cup {SpecOf("part_001", 120, FALSE, FALSE, "It", "create_rejected")}
    \cup {SpecOf("part_001", q, FALSE, FALSE, "It", "create_wait") : q \in {147, 274}}
    \cup {SpecOf("part_001", q, TRUE, FALSE, "BeforeEach", "create_wait") : q \in {126, 125}}
    \cup {SpecOf("part_001", q, FALSE, FALSE, "BeforeEach", "create_wait") : q \in {128, 131}}

SpecsOf(file) == IF file = "part_000" THEN P0Specs ELSE P1Specs

NoSpec == SpecOf("none", 0, FALSE, FALSE, "none", "none")

\* what ListEKSAllVersions can return: the UI-supported versions, highest
\* first, or the error of the listing
VersionLists == {<<"1.30", "1.29", "1.28">>, <<"1.30", "1.29">>, <<"1.30">>}
ListEKSAllVersions ==
    {[ok |-> TRUE, versions |-> l, err |-> NoErr] : l \in VersionLists}
    \cup {[ok |-> FALSE, versions |-> <<>>, err |-> "list failed"]}

\* helpers.DefaultK8sVersion(allVariants, forUpgrade): the highest version
\* of the list, or the second-highest for an upgrade; an error when the list
\* has no version to upgrade from
DefaultK8sVersion(allVariants, forUpgrade) ==
    IF ~forUpgrade THEN [version |-> allVariants[1], err |-> NoErr]
    ELSE IF Len(allVariants) < 2 THEN [version |-> "", err |-> "no upgrade version"]
    ELSE [version |-> allVariants[2], err |-> NoErr]

\* a GetK8sVersion that would take the override for plain provisioning only
GetK8sVersionOverrideUnlessUpgrade(override, listing, forUpgrade) ==
    IF override # "" /\ ~forUpgrade
    THEN [version |-> override, err |-> NoErr, queried |-> FALSE]
    ELSE IF ~listing.ok
    THEN [version |-> "", err |-> listing.err, queried |-> TRUE]
    ELSE [queried |-> TRUE] @@ DefaultK8sVersion(listing.versions, forUpgrade)

\* GetK8sVersion(client, forUpgrade), with helpers.DownstreamK8sMinorVersion as
\* override and listing as what ListEKSAllVersions returns if it is called:
\* the version, the error, and whether the API was queried
GetK8sVersion(override, listing, forUpgrade) ==
    IF override # ""
    THEN [version |-> override, err |-> NoErr, queried |-> FALSE]
    ELSE IF ~listing.ok
    THEN [version |-> "", err |-> listing.err, queried |-> TRUE]
    ELSE [queried |-> TRUE] @@ DefaultK8sVersion(listing.versions, forUpgrade)

\* a call of GetK8sVersion a spec made: its inputs and what it returned
VersionCall(override, listing, forUpgrade) ==
    [forUpgrade |-> forUpgrade, listing |-> listing,
     ret |-> GetK8sVersion(override, listing, forUpgrade)]

\* the package-level zone and region of the GKE suite as the environment
\* gives them, both set
GKEZone == "us-central1-c"
GKERegion == "us-central1"

\* no suite running: the package-level variables as initialised, updateFunc nil
NoSuite ==
    [ClusterCleanup |-> FALSE, SkipUpgradeTests |-> FALSE, subnets |-> FALSE,
     DownstreamK8sMinorVersion |-> "", k8s |-> <<>>, spec |-> NoSpec, phase |-> "idle", cluster |-> NilHandle, err |-> "pending",
     created |-> 0, present |-> {}, deletes |-> <<>>, ran |-> 0, result |-> "none",
     testCaseID |-> 0, reports |-> <<>>,
     zone |-> GKEZone, region |-> GKERegion, updateFunc |-> FALSE, createdWith |-> <<>>]

SuiteIdle == suite = NoSuite

\* a runner whose ReportBeforeEach leaves the case identifier alone
ReportBeforeEachKeepsCaseID(su) == su

\* ReportBeforeEach: testCaseID = -1
ReportBeforeEach(su) == [su EXCEPT !.testCaseID = -1]

\* the first statement of an It block: testCaseID = <the case of the spec>
ItStarts(su) == [su EXCEPT !.testCaseID = su.spec.qaseID]

\* the BeforeEach of part_000 on the package-level variables: a regional spec
\* empties zone and sets updateFunc (which appends the zone to Locations), any
\* other spec empties region
Placement(su, regional) ==
    IF regional THEN [su EXCEPT !.zone = "", !.updateFunc = TRUE]
    ELSE [su EXCEPT !.region = ""]

\* a spec starts: nothing created, nothing deleted yet; the `cluster`
\* variable and the clusters at the API are as the spec before left them
StartSpec(su, sp) ==
    ReportBeforeEach(
        [su EXCEPT !.spec = sp, !.phase = "before", !.created = 0, !.deletes = <<>>,
                   !.err = "pending", !.k8s = <<>>, !.ran = @ + 1,
                   !.createdWith = <<>>,
                   !.result = "running"])

\* a failed assertion (or Skip) ends set-up and body; AfterEach still runs
EndsBody(su, result) == [su EXCEPT !.phase = "after", !.result = result]

\* a BeforeEach that would skip on the flag alone
SkipsOnFlagAlone(sp, SkipUpgradeTests) == sp.file = "part_000" /\ SkipUpgradeTests

\* if testData.isUpgrade && helpers.SkipUpgradeTests { Skip(...) }, the first
\* statement of the BeforeEach of part_000
SkipsSpec(sp, SkipUpgradeTests) ==
    sp.file = "part_000" /\ sp.isUpgrade /\ SkipUpgradeTests

\* The outer BeforeEach blocks, up to the creation of the cluster: part_000
\* skips an upgrade spec when SkipUpgradeTests is set, and asserts that its
\* (GKE) GetK8sVersion succeeded; part_001 calls GetK8sVersion(client, false)
\* and asserts that it succeeded.
SuiteBeforeEach ==
    /\ suite.phase = "before"
    /\ IF SkipsSpec(suite.spec, suite.SkipUpgradeTests)
       THEN suite' = EndsBody(suite, "skipped")
       ELSE IF suite.spec.file = "part_000"
       THEN \E ok \in BOOLEAN :
               LET su == Placement(suite, suite.spec.regional)
               IN suite' = IF ok THEN [su EXCEPT !.phase = "create"]
                           ELSE EndsBody(su, "failed")
       ELSE \E listing \in ListEKSAllVersions :
               LET c == VersionCall(suite.DownstreamK8sMinorVersion, listing, FALSE)
                   su == [suite EXCEPT !.k8s = Append(@, c)]
               IN suite' =
                    IF c.ret.err # NoErr THEN EndsBody(su, "failed")
                    ELSE IF suite.spec.isUpgrade
                    THEN [su EXCEPT !.phase = "upgrade_before"]
                    ELSE [su EXCEPT !.phase = "create"]
    /\ UNCHANGED <<scenarioVars, cliVars, chartVars>>

\* The BeforeEach of "Upgrade testing" in part_001: k8sVersion is taken with
\* forUpgrade = true, upgradeToVersion with forUpgrade = false, each asserted
\* to have succeeded.
UpgradeBeforeEach ==
    /\ suite.phase = "upgrade_before"
    /\ \E l1 \in ListEKSAllVersions, l2 \in ListEKSAllVersions :
        LET c1 == VersionCall(suite.DownstreamK8sMinorVersion, l1, TRUE)
            c2 == VersionCall(suite.DownstreamK8sMinorVersion, l2, FALSE)
        IN suite' =
            IF c1.ret.err # NoErr
            THEN EndsBody([suite EXCEPT !.k8s = Append(@, c1)], "failed")
            ELSE IF c2.ret.err # NoErr
            THEN EndsBody([suite EXCEPT !.k8s = @ \o <<c1, c2>>], "failed")
            ELSE [suite EXCEPT !.k8s = @ \o <<c1, c2>>, !.phase = "create"]
    /\ UNCHANGED <<scenarioVars, cliVars, chartVars>>

\* what a spec submits: the "only Security groups" spec sets security groups;
\* the subnets are those of the CATTLE_TEST_CONFIG file, if it has any
CreateRequest(sp, subnets) ==
    [securityGroups |-> sp.shape = "create_rejected", subnets |-> subnets]

\* what the management API answers to the creation of a spec's cluster
CreateOutcomes(sp, subnets) == CreateAnswers(CreateRequest(sp, subnets))

\* a set-up that would keep the cluster it held when the creation fails
CreatedHandleKept(h, ok, id) == IF ok THEN Handle(id) ELSE h

\* cluster, err = helper.CreateEKSHostedCluster(...): the variable takes what
\* the call returns, nil with an error
CreatedHandle(h, ok, id) == IF ok THEN Handle(id) ELSE NilHandle

\* cluster, err = helper.CreateEKSHostedCluster(...) and the assertion on err
CreateHostedCluster ==
    /\ suite.phase = "create"
    /\ \E ok \in CreateOutcomes(suite.spec, suite.subnets) :
        LET id == suite.ran
            e == CreateErr(CreateRequest(suite.spec, suite.subnets), ok)
            it == IF suite.spec.setup = "It" THEN ItStarts(suite) ELSE suite
            su == [it EXCEPT !.cluster = CreatedHandle(@, ok, id),
                                !.createdWith =
                                    IF suite.spec.file = "part_000"
                                    THEN <<[zone |-> suite.zone, region |-> suite.region,
                                            updateFunc |-> suite.updateFunc]>>
                                    ELSE @,
                                !.err = e,
                                !.created = IF ok THEN id ELSE @,
                                !.present = IF ok THEN @ \cup {id} ELSE @]
        IN suite' =
            IF suite.spec.shape = "create_rejected"
            THEN EndsBody(su, IF MatchError(e, ErrSubnets) THEN "passed" ELSE "failed")
            ELSE IF ~ok THEN EndsBody(su, "failed")
            ELSE IF suite.spec.shape = "create_wait" THEN [su EXCEPT !.phase = "wait"]
            ELSE [su EXCEPT !.phase = "body"]
    /\ UNCHANGED <<scenarioVars, cliVars, chartVars>>

\* what helpers.WaitUntilClusterIsReady hands back next to its error: the
\* cluster as read again when it became ready; nil or the cluster it was
\* given when the wait failed
WaitUntilClusterIsReadyReturns(h, ok) == IF ok THEN {Handle(h.ID)} ELSE {NilHandle, h}

\* cluster, err = helpers.WaitUntilClusterIsReady(cluster, client) and the
\* assertion on err
WaitUntilClusterIsReady ==
    /\ suite.phase = "wait"
    /\ \E ok \in BOOLEAN :
        \E h \in WaitUntilClusterIsReadyReturns(suite.cluster, ok) :
            suite' = IF ok THEN [suite EXCEPT !.cluster = h, !.phase = "body"]
                     ELSE EndsBody([suite EXCEPT !.cluster = h], "failed")
    /\ UNCHANGED <<scenarioVars, cliVars, chartVars>>

\* the rest of the It block: the scenario body, which works on its own copy
\* of the pointer and passes or fails
SpecBody ==
    /\ suite.phase = "body"
    /\ \E ok \in BOOLEAN :
        suite' = EndsBody(ItStarts(suite), IF ok THEN "passed" ELSE "failed")
    /\ UNCHANGED <<scenarioVars, cliVars, chartVars>>

\* whether AfterEach deletes:
\*   ctx.ClusterCleanup && (cluster != nil && cluster.ID != "")
AfterEachDeletes(su) ==
    su.ClusterCleanup /\ (~su.cluster.nil /\ su.cluster.ID # 0)

\* AfterEach: the cluster the variable holds is deleted, and the deletion
\* asserted to succeed; or the deletion is skipped
AfterEach ==
    /\ suite.phase = "after"
    /\ IF AfterEachDeletes(suite)
       THEN \E ok \in (IF suite.cluster.ID \in suite.present
                      THEN {TRUE, FALSE} ELSE {FALSE}) :
               suite' = [suite EXCEPT
                           !.phase = "done",
                           !.deletes = Append(@, suite.cluster.ID),
                           !.present = IF ok THEN @ \ {suite.cluster.ID} ELSE @,
                           !.result = IF ok THEN @ ELSE "failed"]
       ELSE suite' = [suite EXCEPT !.phase = "done"]
    /\ UNCHANGED <<scenarioVars, cliVars, chartVars>>

\* ReportAfterEach: Qase(testCaseID, report), once the spec and its AfterEach
\* are over
ReportAfterEach ==
    /\ suite.phase = "done" /\ Len(suite.reports) < suite.ran
    /\ suite' = [suite EXCEPT !.reports =
                    Append(@, [spec |-> suite.spec.qaseID, result |-> suite.result,
                               testCaseID |-> suite.testCaseID])]
    /\ UNCHANGED <<scenarioVars, cliVars, chartVars>>

\* the runner goes on to another spec of the file
NextSpec ==
    /\ suite.phase = "done" /\ suite.ran < MaxSpecs
    /\ Len(suite.reports) = suite.ran
    /\ \E sp \in SpecsOf(suite.spec.file) : suite' = StartSpec(suite, sp)
    /\ UNCHANGED <<scenarioVars, cliVars, chartVars>>

(***************************************************************************)
(* The GKE chart-support upgrade suite                                     *)
(***************************************************************************)
\* helpers.RancherFullVersion and the rancherUpgradedVersion the It blocks
\* pass to commonChartSupportUpgrade
RancherFullVersion == "2.8.5"
RancherUpgradeFullVersion == "2.9.0"

\* no chart-support spec running.  Versions of the operator chart and of
\* Kubernetes are numbers, 0 for "not installed" or "not taken yet".
NoChart ==
    [phase |-> "idle", at |-> 0, result |-> "none", rancher |-> "",
     bundled |-> <<0, 0>>, installed |-> 0, k8s |-> 0, latest |-> 0,
     k8sUpgradedVersion |-> 0, nodeCount |-> 0, pools |-> 0, upstreamPools |-> 0,
     originalChartVersion |-> 0, upgradedChartVersion |-> 0, downgradeVersion |-> 0,
     currentNodePoolNumber |-> 0, log |-> <<>>, restored |-> <<>>]

ChartIdle == chart = NoChart

\* the operator chart a Rancher version installs
BundledChart(c, rancherVersion) ==
    IF rancherVersion = RancherFullVersion THEN c.bundled[1] ELSE c.bundled[2]

\* a commonChartSupportUpgrade that would uninstall the operator chart
\* before it downgrades it and scales the node pool
commonChartSupportUpgradeUninstallingFirst ==
    << "checking the chart version",
       "upgrading rancher",
       "making sure the local cluster is ready",
       "validating the chart version is > the old version",
       "making sure the downstream cluster is ready",
       "upgrading the cluster",
       "fetching a value to downgrade to",
       "uninstalling the operator chart",
       "downgrading the chart version",
       "scaling nodepool up",
       "adding a nodepool",
       "ensuring that the chart is re-installed",
       "waiting for the total nodepool count to increase" >>

\* the By blocks of commonChartSupportUpgrade in the order the function runs
\* them; the last By block of the function is taken in its three parts
commonChartSupportUpgrade ==
    << "checking the chart version",
       "upgrading rancher",
       "making sure the local cluster is ready",
       "validating the chart version is > the old version",
       "making sure the downstream cluster is ready",
       "upgrading the cluster",
       "fetching a value to downgrade to",
       "downgrading the chart version",
       "scaling nodepool up",
       "uninstalling the operator chart",
       "adding a nodepool",
       "ensuring that the chart is re-installed",
       "waiting for the total nodepool count to increase" >>

\* helpers.VersionCompare(a, b): 1, 0 or -1
VersionCompare(a, b) == IF a > b THEN 1 ELSE IF a = b THEN 0 ELSE -1

\* the value helpers.WaitUntilOperatorChartInstallation(chartVersion,
\* comparator, compareTo) waits for: a chart is installed and VersionCompare of
\* it with chartVersion is compareTo ("" compares as "==")
OperatorChartInstallation(c, chartVersion, compareTo) ==
    c.installed # 0 /\ VersionCompare(c.installed, chartVersion) = compareTo

\* helpers.GetDowngradeOperatorChartVersion: a released version below the given one
GetDowngradeOperatorChartVersion(chartVersion) == chartVersion - 1

\* what a block can do when it is run: succeed (TRUE) or fail an assertion,
\* time out included (FALSE).  A block that waits succeeds only on the value
\* it waits for and times out only without it; a block with an assertion on a
\* value fails on that value.
BlockOutcomes(c, block) ==
    CASE block = "checking the chart version" ->
            IF c.installed # 0 THEN {TRUE} ELSE {FALSE}
      [] block = "validating the chart version is > the old version" ->
            {OperatorChartInstallation(c, c.originalChartVersion, 1)}
      [] block = "upgrading the cluster" ->
            IF c.latest = c.k8sUpgradedVersion /\ VersionCompare(c.latest, c.k8s) = 1
            THEN {TRUE, FALSE} ELSE {FALSE}
      [] block = "fetching a value to downgrade to" -> {TRUE}
      [] block \in {"scaling nodepool up"} ->
            IF c.installed # 0 THEN {TRUE, FALSE} ELSE {FALSE}
      [] block = "ensuring that the chart is re-installed" ->
            {OperatorChartInstallation(c, c.upgradedChartVersion, 0)}
      [] block = "waiting for the total nodepool count to increase" ->
            {c.upstreamPools = c.currentNodePoolNumber + 1}
      [] OTHER -> {TRUE, FALSE}

\* the state a block that succeeded leaves
BlockEffect(c, block) ==
    CASE block = "checking the chart version" ->
            [c EXCEPT !.originalChartVersion = c.installed]
      [] block = "upgrading rancher" ->
            [c EXCEPT !.rancher = RancherUpgradeFullVersion,
                      !.installed = BundledChart(c, RancherUpgradeFullVersion)]
      [] block = "validating the chart version is > the old version" ->
            [c EXCEPT !.upgradedChartVersion = c.installed]
      [] block = "upgrading the cluster" -> [c EXCEPT !.k8s = c.latest]
      [] block = "fetching a value to downgrade to" ->
            [c EXCEPT !.downgradeVersion =
                        GetDowngradeOperatorChartVersion(c.upgradedChartVersion)]
      [] block = "downgrading the chart version" ->
            [c EXCEPT !.installed = c.downgradeVersion]
      [] block = "scaling nodepool up" -> [c EXCEPT !.nodeCount = @ + 1]
      [] block = "uninstalling the operator chart" -> [c EXCEPT !.installed = 0]
      [] block = "adding a nodepool" ->
            [c EXCEPT !.currentNodePoolNumber = c.pools, !.pools = @ + 1]
      [] OTHER -> c

\* the state of the installation when a block has ended
Snapshot(c, block) ==
    [block |-> block, rancher |-> c.rancher, installed |-> c.installed,
     k8s |-> c.k8s, nodeCount |-> c.nodeCount, pools |-> c.pools,
     upstreamPools |-> c.upstreamPools]

\* BeforeEach: Rancher is installed at RancherFullVersion and checked, the
\* client set up, the version for the cluster taken; the It block then
\* provisions the cluster and calls commonChartSupportUpgrade
ChartBeforeEach ==
    /\ chart.phase = "before"
    /\ \E ok \in BOOLEAN :
        chart' = IF ok THEN [chart EXCEPT !.phase = "body", !.at = 1,
                                          !.rancher = RancherFullVersion]
                 ELSE [chart EXCEPT !.phase = "after", !.result = "failed"]
    /\ UNCHANGED <<scenarioVars, cliVars, suiteVars>>

\* the next By block of commonChartSupportUpgrade: it succeeds and the
\* function goes on, or an assertion of it fails and the spec goes to AfterEach
ChartBlock ==
    /\ chart.phase = "body"
    /\ LET block == commonChartSupportUpgrade[chart.at]
       IN \E ok \in BlockOutcomes(chart, block) :
            chart' =
                IF ~ok THEN [chart EXCEPT !.phase = "after", !.result = "failed"]
                ELSE LET c == BlockEffect(chart, block)
                         d == [c EXCEPT !.log = Append(@, Snapshot(c, block))]
                     IN IF chart.at = Len(commonChartSupportUpgrade)
                        THEN [d EXCEPT !.phase = "after", !.result = "passed"]
                        ELSE [d EXCEPT !.at = @ + 1]
    /\ UNCHANGED <<scenarioVars, cliVars, suiteVars>>

\* Rancher installs the operator chart it ships when a cluster has a change
\* to apply and no operator is installed
OperatorChartInstalled ==
    /\ chart.phase \in {"body", "after"}
    /\ chart.installed = 0 /\ chart.pools # chart.upstreamPools
    /\ chart' = [chart EXCEPT !.installed = BundledChart(chart, chart.rancher)]
    /\ UNCHANGED <<scenarioVars, cliVars, suiteVars>>

\* the operator applies the node pools of GKEConfig, and Rancher shows them
\* in GKEStatus.UpstreamSpec
NodePoolsReconciled ==
    /\ chart.phase \in {"body", "after"}
    /\ chart.installed # 0 /\ chart.pools # chart.upstreamPools
    /\ chart' = [chart EXCEPT !.upstreamPools = chart.pools]
    /\ UNCHANGED <<scenarioVars, cliVars, suiteVars>>

\* the By blocks of AfterEach
ChartAfterEachBlocks ==
    << "Installing Rancher back to its original version",
       "Uninstalling the existing operator charts" >>

\* AfterEach, one By block at a time: Rancher is installed at
\* RancherFullVersion and its deployments checked, then the operator charts
\* are uninstalled.  A block that fails ends AfterEach and fails the spec.
ChartAfterEach ==
    /\ chart.phase = "after"
    /\ LET block == ChartAfterEachBlocks[Len(chart.restored) + 1]
       IN \E ok \in BOOLEAN :
            chart' =
                IF ~ok THEN [chart EXCEPT !.phase = "done", !.result = "failed"]
                ELSE LET c == IF block = ChartAfterEachBlocks[1]
                              THEN [chart EXCEPT !.rancher = RancherFullVersion]
                              ELSE [chart EXCEPT !.installed = 0]
                         d == [c EXCEPT !.restored = Append(@, block)]
                     IN IF Len(d.restored) = Len(ChartAfterEachBlocks)
                        THEN [d EXCEPT !.phase = "done"]
                        ELSE d
    /\ UNCHANGED <<scenarioVars, cliVars, suiteVars>>

(***************************************************************************)
(* Scenario bodies                                                         *)
(***************************************************************************)
TestTags == {<<"foo", "bar">>, <<"testCaseID", "144-97-143">>}
TestLabels == {<<"testCaseID", "142-99-145">>}

\* p1_suite_test.go: updateLoggingCheck
updateLoggingCheck ==
    << Plain("UpdateLogging", [types |-> AllLoggingTypes, check |-> TRUE]),
       Plain("UpdateLogging", [types |-> <<"api">>, check |-> TRUE]) >>

\* p1_suite_test.go: updateTagsAndLabels, on a fixture with config cfg
updateTagsAndLabels(cfg) ==
    LET originalClusterTags == cfg.tags
        updatedTags == MapsCopy(MapsCopy({}, originalClusterTags), TestTags)
        originalNGLabels == cfg.ngs[1].labels
        updatedNGLabels == MapsCopy(MapsCopy({}, originalNGLabels), TestLabels)
        originalNGTags == cfg.ngs[1].tags
        updatedNGTags == MapsCopy(MapsCopy({}, originalNGTags), TestTags)
    IN << Plain("UpdateClusterTags", [tags |-> updatedTags, check |-> TRUE]),
          Call("UpdateClusterTags",
               [tags |-> originalClusterTags, check |-> TRUE, removed |-> TestTags],
               "ignore", TRUE, FALSE),
          Plain("UpdateNodegroupMetadata",
                [tags |-> updatedNGTags, labels |-> updatedNGLabels, check |-> TRUE]),
          Call("UpdateNodegroupMetadata",
               [tags |-> originalNGTags, labels |-> originalNGLabels, check |-> TRUE,
                removed |-> TestTags, removedLabels |-> TestLabels],
               "ignore", TRUE, FALSE) >>

\* part_001 "Fail to update both Public/Private access as false and invalid
\* values of the access": invalidEndpointCheck, then invalidAccessValuesCheck
invalidAccessTest ==
    << Call("UpdatePublicAccessSources",
            [sources |-> <<"invalid-random">>, check |-> FALSE], "ignore", TRUE, TRUE),
       Call("EventuallyError", [substr |-> MsgInvalidCIDR[1], T |-> 2 * 60, I |-> 3],
            "expect_nil", TRUE, FALSE),
       Call("UpdateAccess", [pub |-> FALSE, priv |-> FALSE, check |-> FALSE,
                             errSubstr |-> ErrMustBeEnabled],
            "expect_err", FALSE, TRUE) >>

\* p1_suite_test.go: upgradeNodeKubernetesVersionGTCPCheck
upgradeNodeKubernetesVersionGTCPCheck(upgradeToVersion) ==
    << Plain("UpgradeNodeKubernetesVersion",
             [version |-> upgradeToVersion, wait |-> FALSE, check |-> FALSE]),
       Call("EventuallyError", [substr |-> "not compatible", T |-> 60, I |-> 3],
            "expect_nil", TRUE, FALSE) >>

\* p1_suite_test.go: upgradeCPAndAddNgCheck
upgradeCPAndAddNgCheck(cfg, upgradeToVersion) ==
    << Plain("UpgradeClusterKubernetesVersion",
             [version |-> upgradeToVersion, check |-> TRUE]),
       Plain("UpdateCluster", [originalLen |-> Len(cfg.ngs)]),
       Call("WaitClusterToBeUpgraded", [check |-> FALSE], "expect_nil", FALSE, FALSE),
       Call("EventuallyNgVersion",
            [version |-> upgradeToVersion, T |-> 5 * 60, I |-> 15],
            "expect_nil", TRUE, FALSE) >>

\* p1_suite_test.go: updateClusterInUpdatingState
updateClusterInUpdatingState(upgradeToVersion) ==
    << Plain("UpgradeClusterKubernetesVersion",
             [version |-> upgradeToVersion, check |-> FALSE, echo |-> TRUE]),
       Call("WaitClusterToBeInUpgrade", [check |-> FALSE], "expect_nil", FALSE, FALSE),
       Plain("UpdateLogging", [types |-> <<"api">>, check |-> FALSE, echo |-> TRUE]),
       Call("WaitClusterToBeUpgraded", [check |-> FALSE], "expect_nil", FALSE, FALSE),
       Call("EventuallyBoth",
            [types |-> <<"api">>, version |-> upgradeToVersion, T |-> 15 * 60, I |-> 30],
            "expect_nil", TRUE, FALSE) >>

\* out, err = helper.GetFromEKS(region, clusterName, cmd, query) with the
\* assertions on err and out that follow it
Read(query, want) ==
    Call("GetFromEKS", [query |-> query, want |-> want], "expect_nil", FALSE, FALSE)

\* p1_suite_test.go: syncRancherToAWSCheck, with syncK8sVersionUpgradeCheck
\* (upgradeNodeGroup = false) as its first two steps; the poll of that function
\* assigns to the function's own `cluster`, not to the caller's
syncRancherToAWSCheck(cfg, upgradeToVersion) ==
    LET k8sVersion == cfg.ver
        currentNodeGroupNumber == Len(cfg.ngs)
        initialNodeCount == cfg.ngs[1].size
    IN << Call("UpgradeEKSClusterOnAWS", [version |-> upgradeToVersion],
               "expect_nil", FALSE, FALSE),
          Call("EventuallyK8sVersion",
               [version |-> upgradeToVersion, k8sVersion |-> k8sVersion,
                T |-> 5 * 60, I |-> 10],
               "expect_nil", FALSE, FALSE),
          Plain("ScaleNodeGroup",
                [nodeCount |-> initialNodeCount + 1, wait |-> TRUE, check |-> TRUE,
                 k8sVersion |-> k8sVersion, count |-> currentNodeGroupNumber]),
          Read("cluster.Version", upgradeToVersion),
          Read("nodegroup.length", currentNodeGroupNumber),
          Read("nodegroup.DesiredCapacity", initialNodeCount + 1),
          Plain("AddNodeGroup",
                [increaseBy |-> 1, wait |-> TRUE, check |-> TRUE,
                 upgradeToVersion |-> upgradeToVersion]),
          Read("cluster.Version", upgradeToVersion),
          Read("nodegroup.length", currentNodeGroupNumber + 1),
          Plain("UpdateLogging",
                [types |-> AllLoggingTypes, check |-> TRUE,
                 upgradeToVersion |-> upgradeToVersion,
                 count |-> currentNodeGroupNumber + 1]),
          Read("nodegroup.length", currentNodeGroupNumber + 1),
          Read("cluster.Logging.Types", AllLoggingTypes) >>

\* helper.AddNodeGroupToConfig(cfg, ngCount): the node groups become ngCount
\* copies of the first, each under a fresh name, the latest in front
AddNodeGroupToConfig(cfg, ngCount) ==
    [cfg EXCEPT !.ngs = [i \in 1..ngCount |->
        [cfg.ngs[1] EXCEPT !.name = RandomNgName(ngCount - i + 1)]]]

\* updateFunc of the duplicate-names spec: two node groups from the template,
\* each renamed "duplicate" and put in front of the ones before
DuplicateNames(cfg) ==
    LET two == AddNodeGroupToConfig(cfg, 2).ngs
    IN [cfg EXCEPT !.ngs = [i \in 1..Len(two) |->
            [two[Len(two) - i + 1] EXCEPT !.name = <<"duplicate", 0>>]]]

DuplicateNameSubstrings == {MsgNotUnique[1], MsgMustBeUnique[1]}

\* part_001 "should fail to provision a cluster with duplicate nodegroup names"
duplicateNodegroupNames(k8sVersion) ==
    << Call("CreateEKSHostedCluster",
            [cfg |-> DuplicateNames(FixtureCfg(1, k8sVersion)),
             securityGroups |-> FALSE, subnets |-> FALSE],
            "expect_nil", TRUE, TRUE),
       Call("EventuallyErrorAny",
            [substrs |-> DuplicateNameSubstrings, T |-> 60, I |-> 3],
            "expect_nil", TRUE, FALSE) >>

\* part_001 "should error out to provision a cluster with no nodegroups"
noNodegroups(k8sVersion) ==
    << Call("CreateEKSHostedCluster",
            [cfg |-> [FixtureCfg(1, k8sVersion) EXCEPT !.ngs = <<>>],
             securityGroups |-> FALSE, subnets |-> FALSE],
            "expect_nil", TRUE, TRUE),
       Call("EventuallyError", [substr |-> MsgNoNodeGroups[1], T |-> 10 * 60, I |-> 30],
            "expect_nil", FALSE, FALSE) >>

\* updateFunc of the different-versions spec: every node group gets
\* ngK8sVersion and is put in front of the ones before
WithNodeGroupVersion(cfg, ngK8sVersion) ==
    [cfg EXCEPT !.ngs = [i \in 1..Len(cfg.ngs) |->
        [cfg.ngs[Len(cfg.ngs) - i + 1] EXCEPT !.ver = ngK8sVersion]]]

\* part_001 "Fail to create cluster with different k8s versions on control
\* plane and on nodegroup", for a list k8sVersions of two versions or more
\* that ListEKSAllVersions returned: cpK8sVersion := k8sVersions[1],
\* ngK8sVersion := k8sVersions[0]
differentK8sVersions(k8sVersions) ==
    << Call("CreateEKSHostedCluster",
            [cfg |-> WithNodeGroupVersion(FixtureCfg(1, k8sVersions[2]), k8sVersions[1]),
             securityGroups |-> FALSE, subnets |-> FALSE],
            "expect_nil", TRUE, TRUE),
       Call("EventuallyError", [substr |-> MsgMustMatch[1], T |-> 60, I |-> 3],
            "expect_nil", FALSE, FALSE) >>

\* the specs of part_001 that create their cluster themselves
CreateBodies ==
    {duplicateNodegroupNames(v) : v \in K8sVersions}
    \cup {noNodegroups(v) : v \in K8sVersions}
    \cup {differentK8sVersions(l) : l \in {<<"1.30", "1.29", "1.28">>, <<"1.30", "1.29">>}}

TestBodies(cfg) ==
    {updateLoggingCheck, updateTagsAndLabels(cfg), invalidAccessTest,
     upgradeNodeKubernetesVersionGTCPCheck("1.30"),
     upgradeCPAndAddNgCheck(cfg, "1.30"),
     updateClusterInUpdatingState("1.30"),
     syncRancherToAWSCheck(cfg, "1.30")}

\* one call of a helper, with each combination of its flags
HelperCalls(cfg) ==
    {Plain("UpgradeClusterKubernetesVersion", [version |-> v, check |-> c]) :
        v \in K8sVersions, c \in BOOLEAN}
    \cup {Plain("UpgradeNodeKubernetesVersion", [version |-> v, wait |-> w, check |-> c]) :
        v \in K8sVersions, w \in BOOLEAN, c \in BOOLEAN}
    \cup {Plain("AddNodeGroup", [increaseBy |-> n, wait |-> w, check |-> c]) :
        n \in 1..2, w \in BOOLEAN, c \in BOOLEAN}
    \cup {Plain("DeleteNodeGroup", [wait |-> w, check |-> c]) :
        w \in BOOLEAN, c \in BOOLEAN}
    \cup {Plain("ScaleNodeGroup", [nodeCount |-> n, wait |-> w, check |-> c]) :
        n \in 1..2, w \in BOOLEAN, c \in BOOLEAN}
    \cup {Plain("UpdateLogging", [types |-> t, check |-> c]) :
        t \in {<<>>, <<"api">>, AllLoggingTypes}, c \in BOOLEAN}
    \cup {Plain("UpdateAccess", [pub |-> pu, priv |-> pr, check |-> c]) :
        pu \in BOOLEAN, pr \in BOOLEAN, c \in BOOLEAN}
    \cup {Plain("UpdatePublicAccessSources", [sources |-> src, check |-> c]) :
        src \in {<<"10.0.0.0/8">>, <<"invalid-random">>}, c \in BOOLEAN}
    \cup {Plain("UpdateClusterTags", [tags |-> t, check |-> c]) :
        t \in {cfg.tags, MapsCopy(cfg.tags, TestTags)}, c \in BOOLEAN}
    \cup {Plain("UpdateNodegroupMetadata", [tags |-> t, labels |-> l, check |-> c]) :
        t \in {cfg.ngs[1].tags, MapsCopy(cfg.ngs[1].tags, TestTags)},
        l \in {MapsCopy(cfg.ngs[1].labels, TestLabels)}, c \in BOOLEAN}

Scenarios(cfg) == TestBodies(cfg) \cup {<<h>> : h \in HelperCalls(cfg)}

(***************************************************************************)
(* Spec                                                                    *)
(***************************************************************************)
\* the cluster as the API hands it to the test once it is ready
ReadyCluster(cfg) ==
    [ID |-> ClusterID, cfg |-> cfg, status |-> cfg, transitioning |-> "active",
     message |-> MsgNone]

\* no cluster at the API yet
NoCluster ==
    [exists |-> FALSE, desired |-> NilCfg, observed |-> NilCfg, aws |-> NilCfg,
     transitioning |-> "", message |-> MsgNone]

\* A scenario starts with the cluster its BeforeEach created and waited ready,
\* or, for a spec that creates its cluster itself, with no cluster yet.
Init ==
    /\ \/ \E k \in 1..MaxNodeGroups, v \in K8sVersions :
            LET cfg == FixtureCfg(k, v) IN
            /\ api = [exists |-> TRUE, desired |-> cfg, observed |-> cfg, aws |-> cfg,
                      transitioning |-> "active", message |-> MsgNone]
            /\ outer = ReadyCluster(cfg)
            /\ cur = ReadyCluster(cfg)
            /\ scenario \in Scenarios(cfg)
       \/ /\ api = NoCluster
          /\ outer = EmptyCluster
          /\ cur = EmptyCluster
          /\ scenario \in CreateBodies
    /\ alias = TRUE
    /\ step = 1
    /\ pc = "call"
    /\ cluster = EmptyCluster
    /\ err = "pending"
    /\ locals = NoLocals
    /\ poll = NoPoll
    /\ outcome = "running"
    /\ failure = NoFailure
    /\ calls = [update |-> 0, get |-> 0]
    /\ hist = NoHist
    /\ CliIdle
    /\ SuiteIdle
    /\ ChartIdle

Next ==
    \/ UpgradeClusterKubernetesVersion
    \/ UpgradeNodeKubernetesVersion
    \/ AddNodeGroup
    \/ DeleteNodeGroup
    \/ ScaleNodeGroup
    \/ UpdateLogging
    \/ UpdateAccess
    \/ UpdatePublicAccessSources
    \/ UpdateClusterTags
    \/ UpdateNodegroupMetadata
    \/ UpdateCluster
    \/ CreateEKSHostedCluster
    \/ WaitClusterToBeUpgraded
    \/ WaitClusterToBeInUpgrade
    \/ Eventually
    \/ PollSample
    \/ PollTimeout
    \/ UpgradeControlPlaneOnAWS
    \/ ReadFromEKS
    \/ Reconcile
    \/ ReconcileNodeGroup
    \/ RefreshUpstream
    \/ Settle
    \/ ReconcileError

Spec == Init /\ [][Next]_vars

\* Eventually's loop always goes on: its timers fire, so a poll in progress
\* takes its next sample or times out.
FairSpec == Spec /\ WF_vars(PollSample \/ PollTimeout)

(***************************************************************************)
(* SpecCli                                                                 *)
(***************************************************************************)
\* no scenario of Spec running
ScenarioIdle ==
    /\ api = NoCluster
    /\ outer = EmptyCluster
    /\ cur = EmptyCluster
    /\ alias = FALSE
    /\ scenario = <<>>
    /\ step = 0
    /\ pc = "done"
    /\ cluster = EmptyCluster
    /\ err = "pending"
    /\ locals = NoLocals
    /\ poll = NoPoll
    /\ outcome = "none"
    /\ failure = NoFailure
    /\ calls = [update |-> 0, get |-> 0]
    /\ hist = NoHist

\* the environment a helper can be called in
InitCli ==
    /\ ScenarioIdle
    /\ \E kube \in {Unset, EnvValue(""), EnvValue("/root/.kube/config"),
                    EnvValue(TempKubeconfig)},
          down \in {Unset, EnvValue(TempKubeconfig)} :
        /\ environ = [k \in EnvNames |-> IF k = "KUBECONFIG" THEN kube ELSE down]
        /\ files \in (IF down.set THEN {{}, {TempKubeconfig}} ELSE {{}})
    /\ proc = NoProc
    /\ SuiteIdle
    /\ ChartIdle

NextCli ==
    \/ CreateEKSClusterOnAWS
    \/ CreateEKSClusterOnAWSRun
    \/ UpgradeEKSClusterOnAWS
    \/ AddNodeGroupOnAWS
    \/ UpgradeEKSNodegroupOnAWS
    \/ GetFromEKS
    \/ ModifyEKSNodegroupOnAWS
    \/ DeleteEKSClusterOnAWS
    \/ DeleteListNodegroups
    \/ DeleteNodegroups
    \/ DeleteCluster

SpecCli == InitCli /\ [][NextCli]_vars

(***************************************************************************)
(* SpecSuite                                                               *)
(***************************************************************************)
InitSuite ==
    /\ ScenarioIdle
    /\ CliIdle
    /\ ChartIdle
    /\ \E cleanup \in BOOLEAN, skip \in BOOLEAN, subnets \in BOOLEAN,
          override \in {""} \cup K8sVersions, sp \in P0Specs \cup P1Specs :
        suite = StartSpec([NoSuite EXCEPT !.ClusterCleanup = cleanup,
                                          !.SkipUpgradeTests = skip,
                                          !.subnets = subnets,
                                          !.DownstreamK8sMinorVersion = override],
                          sp)

NextSuite ==
    \/ SuiteBeforeEach
    \/ UpgradeBeforeEach
    \/ CreateHostedCluster
    \/ WaitUntilClusterIsReady
    \/ SpecBody
    \/ AfterEach
    \/ ReportAfterEach
    \/ NextSpec

SpecSuite == InitSuite /\ [][NextSuite]_vars

(***************************************************************************)
(* SpecChart                                                               *)
(***************************************************************************)
\* A chart-support spec at the start of its BeforeEach.  The environment
\* decides which operator chart each Rancher version ships, which Kubernetes
\* versions exist, and the cluster the It block provisions: its version, its
\* node pools, and whether the operator chart is installed by then.
InitChart ==
    /\ ScenarioIdle
    /\ CliIdle
    /\ SuiteIdle
    /\ \E r \in {RancherFullVersion, RancherUpgradeFullVersion},
          c0 \in 1..2, up \in 0..1, hasChart \in BOOLEAN,
          v \in 1..2, latest \in 1..3, wanted \in 2..3,
          n \in 1..MaxNodeGroups :
        chart = [NoChart EXCEPT !.phase = "before", !.result = "running",
                                !.rancher = r, !.bundled = <<c0, c0 + up>>,
                                !.installed = IF hasChart THEN c0 ELSE 0,
                                !.k8s = v, !.latest = latest,
                                !.k8sUpgradedVersion = wanted,
                                !.nodeCount = 1, !.pools = n, !.upstreamPools = n]

NextChart ==
    \/ ChartBeforeEach
    \/ ChartBlock
    \/ OperatorChartInstalled
    \/ NodePoolsReconciled
    \/ ChartAfterEach

SpecChart == InitChart /\ [][NextChart]_vars

(***************************************************************************)
(* Properties of the convergence poll                                      *)
(***************************************************************************)
PollEnded == poll.result \in {"success", "timeout", "aborted"}

C1_TimedOut ==
    poll.result = "timeout" =>
        /\ outcome = "failed" /\ pc = "done"
        /\ failure.kind = "TimeoutExceeded"
        /\ failure.actual = poll.last /\ Len(poll.last) = 1
        /\ poll.satCount = 0
        /\ poll.samples >= 1 /\ poll.lastAt <= poll.T

C1_RanToDeadline ==
    (PollEnded /\ poll.satCount = 0 /\ poll.result # "aborted") =>
        poll.result = "timeout"

C2_SuccessAtFirstSatisfyingSample ==
    /\ poll.satCount <= 1
    /\ poll.satCount = 1 => poll.result = "success"
    /\ poll.result = "success" => poll.satCount = 1 /\ pc # "poll"
    /\ pc = "poll" => poll.result = "polling" /\ poll.satCount = 0

C2_Witness ==
    poll.result = "success" /\ poll.samples >= 2 /\ poll.satCount = 1

\* C3: with I <= T, a poll that timed out has invoked its probe at least once
\* and at most ceil(T/I)+1 times.
C3_SamplesBeforeTimeout ==
    (poll.result = "timeout" /\ poll.I <= poll.T) =>
        /\ poll.samples >= 1
        /\ poll.samples <= CeilDiv(poll.T, poll.I) + 1

C3_Witness ==
    /\ poll.result = "timeout" /\ poll.I <= poll.T
    /\ poll.samples = CeilDiv(poll.T, poll.I) + 1

C5_PollOnlyReads ==
    [][(pc = "poll" /\ poll' # poll) =>
          /\ api' = api
          /\ calls'.update = calls.update
          /\ calls'.get = IF poll'.samples = poll.samples + 1
                          THEN calls.get + 1 ELSE calls.get
          /\ outer' = outer /\ locals' = locals /\ scenario' = scenario]_vars

C5_Witness ==
    /\ poll.result = "success" /\ poll.samples >= 3
    /\ calls.get = poll.samples /\ calls.update = 1

(***************************************************************************)
(* Properties of the provider-CLI helpers                                  *)
(***************************************************************************)
\* C8: when CreateEKSClusterOnAWS or DeleteEKSClusterOnAWS has been left, by
\* its normal return, by any of its early error returns or by a panic,
\* KUBECONFIG reads (os.Getenv) the value it read on entry.
C8_KubeconfigRestored ==
    (proc.fn \in {"CreateEKSClusterOnAWS", "DeleteEKSClusterOnAWS"}
        /\ proc.pc \in {"returned", "panicked"}) =>
            /\ Getenv(environ, "KUBECONFIG") = Getenv([k \in EnvNames |-> proc.entry],
                                                      "KUBECONFIG")
            /\ proc.path \in {"normal", "cli_failure", "list_failure",
                              "ng_failure", "panic"}

C8_Witness ==
    /\ proc.fn = "DeleteEKSClusterOnAWS" /\ proc.pc = "returned"
    /\ proc.path = "ng_failure" /\ proc.swapped
    /\ proc.entry = EnvValue("/root/.kube/config")
    /\ Getenv(environ, "KUBECONFIG") = "/root/.kube/config"

\* C9: a CLI helper that has returned after one of its invocations failed has
\* returned a non-nil error that is annotated (wrapped), some annotation of it
\* carrying the captured output of the failed invocation.
C9_CliFailureWrappedWithOutput ==
    (proc.pc = "returned" /\ proc.path # "normal") =>
        /\ proc.ret # NilError
        /\ Len(proc.ret) >= 2
        /\ \E i \in 1..Len(proc.ret) : proc.ret[i].out = proc.captured

C14_SecurityGroupsWithoutSubnetsRejected ==
    (suite.spec.shape = "create_rejected" /\ ~suite.subnets
        /\ suite.err # "pending") =>
            /\ suite.phase \in {"after", "done"}
            /\ MatchError(suite.err, ErrSubnets)
            /\ suite.created = 0 /\ suite.ran \notin suite.present
            /\ suite.cluster = NilHandle
            /\ suite.deletes = <<>>
            /\ suite.result = "passed"

C14_Witness ==
    /\ suite.spec.qaseID = 120 /\ ~suite.subnets /\ suite.phase = "done"
    /\ suite.ClusterCleanup /\ suite.ran = 2 /\ suite.err = ErrSubnets
    /\ suite.deletes = <<>> /\ suite.result = "passed"

\* C17: in the P0 table, once the BeforeEach of a spec has run its first
\* statement: a spec with isUpgrade=true has been skipped whenever
\* SkipUpgradeTests is set, before anything was created (no create call made,
\* no cluster created); and a spec is skipped only if it has isUpgrade=true
\* and the flag is set, so one with isUpgrade=false is never skipped.
C17_UpgradeSpecsSkippedOnFlag ==
    (suite.spec.file = "part_000" /\ suite.phase \notin {"idle", "before"}) =>
        /\ (suite.spec.isUpgrade /\ suite.SkipUpgradeTests) =>
                /\ suite.phase \in {"after", "done"}
                /\ suite.result \in {"skipped", "failed"}
                /\ suite.phase = "after" => suite.result = "skipped"
                /\ suite.created = 0 /\ suite.err = "pending"
                /\ suite.ran \notin suite.present
        /\ suite.result = "skipped" =>
                suite.spec.isUpgrade /\ suite.SkipUpgradeTests
        /\ (~suite.spec.isUpgrade /\ suite.phase = "done") =>
                suite.result \in {"passed", "failed"}

C17_Witness ==
    /\ suite.spec.file = "part_000" /\ suite.spec.qaseID = 301
    /\ suite.SkipUpgradeTests /\ suite.phase = "done" /\ suite.result = "skipped"
    /\ suite.ran = 2 /\ suite.created = 0 /\ suite.err = "pending"

\* C18: every call of GetK8sVersion a spec has made returned the override
\* DOWNSTREAM_K8S_MINOR_VERSION with no error and without querying the API
\* when the override is non-empty, for forUpgrade true and false alike;
\* with no override it queried the API and returned "" with the error of the
\* listing when that failed, else the highest version of the list, or for
\* forUpgrade the second-highest (the one with exactly one version above it).
C18_VersionFromOverrideOrList ==
    \A i \in 1..Len(suite.k8s) :
        LET c == suite.k8s[i]
            override == suite.DownstreamK8sMinorVersion
            above == {j \in 1..Len(c.listing.versions) :
                        Minor(c.listing.versions[j]) > Minor(c.ret.version)}
        IN  /\ override # "" =>
                    c.ret.version = override /\ c.ret.err = NoErr /\ ~c.ret.queried
            /\ override = "" =>
                    /\ c.ret.queried
                    /\ ~c.listing.ok =>
                            c.ret.version = "" /\ c.ret.err = c.listing.err
                                /\ c.ret.err # NoErr
                    /\ (c.listing.ok /\ c.ret.err = NoErr) =>
                            /\ \E j \in 1..Len(c.listing.versions) :
                                    c.listing.versions[j] = c.ret.version
                            /\ Cardinality(above) = IF c.forUpgrade THEN 1 ELSE 0
                    /\ (c.listing.ok /\ c.ret.err # NoErr) =>
                            c.forUpgrade /\ Len(c.listing.versions) < 2

C18_Witness ==
    /\ suite.DownstreamK8sMinorVersion = "1.29" /\ Len(suite.k8s) = 3
    /\ suite.k8s[2].forUpgrade /\ suite.k8s[2].ret.version = "1.29"
    /\ ~suite.k8s[3].forUpgrade /\ suite.k8s[3].ret.version = "1.29"
    /\ \A i \in 1..3 : ~suite.k8s[i].ret.queried
    /\ suite.phase = "done"

(***************************************************************************)
(* Properties of the mutator helpers and of the scenario                   *)
(***************************************************************************)
\* C6: when the API has rejected a helper's Update, the helper has started no
\* poll and has surfaced the rejection: it failed an assertion, or it returned
\* a non-nil error.
C6_RejectionSurfacedAtOnce ==
    hist.update = "rejected" =>
        /\ ~hist.polled
        /\ pc # "poll"
        /\ \/ failure.kind = "assertion" /\ err = "pending"
           \/ err \notin {NoErr, "pending"}

\* C11: a version convergence check is satisfied by every observed version
\* that is at least the desired one in the numeric order of minor versions:
\* a version poll that has sampled such a version has succeeded with it
\* (desired 1.29, observed 1.30 included), equality being only the exact case.
C11_UpgradeSatisfiedByOrdering ==
    (/\ CurStep.op = "UpgradeClusterKubernetesVersion"
     /\ poll.samples >= 1 /\ Len(poll.last) = 1
     /\ Minor(poll.last[1]) >= Minor(Args.version)) =>
        poll.result = "success"

\* C13: an update with PublicAccess=false and PrivateAccess=false is rejected
\* synchronously: UpdateAccess(cluster, client, false, false, false) has issued
\* its one Update, which was rejected, and has returned a non-nil error whose
\* message contains "must be enabled"; and the desired configuration the API
\* holds never has both flags false.
C13_BothAccessFalseRejected ==
    /\ api.exists => (api.desired.pub \/ api.desired.priv)
    /\ (/\ pc = "done" /\ CurStep.op = "UpdateAccess"
        /\ ~Args.pub /\ ~Args.priv /\ ~Args.check) =>
            /\ hist.update = "rejected"
            /\ calls = [update |-> 1, get |-> 0]
            /\ MatchError(err, ErrMustBeEnabled)

C13_Witness ==
    /\ scenario = invalidAccessTest /\ step = 3 /\ outcome = "passed"
    /\ hist.update = "rejected" /\ err = ErrMustBeEnabled
    /\ ~cur.cfg.pub /\ ~cur.cfg.priv /\ api.desired.pub

C15_Scaled ==
    /\ scenario \notin CreateBodies
    /\ Len(scenario) = 1
    /\ CurStep.op = "ScaleNodeGroup" /\ Args.check /\ Args.nodeCount = 1 + 1
    /\ hist.update # "none"

\* C15, as stated: the call returns successfully only after a sample, taken
\* within 15 minutes at 10 second intervals, in which every observed node
\* group has desired size N+1, having set every desired size to N+1; otherwise
\* it fails with a timeout.
C15_ScaleSucceedsOrTimesOut ==
    (C15_Scaled /\ pc = "done") =>
        \/ /\ outcome = "passed" /\ poll.result = "success"
           /\ AllNg(cluster.status.ngs, LAMBDA ng : ng.size = Args.nodeCount)
        \/ outcome = "failed" /\ failure.kind = "TimeoutExceeded"

\* C15, amended: an accepted Update of the call has set the desired size of
\* every node group to N+1; the call returns successfully only after a sample,
\* taken within 15 minutes at 10 second intervals, in which every observed
\* node group has desired size N+1; otherwise it fails: with a timeout when
\* the window passed without such a sample, or at once with a failed
\* assertion when the Update, the wait or a Get-by-ID read failed.
C15_ScaleSucceedsOrFails ==
    C15_Scaled =>
        /\ hist.update = "accepted" =>
                /\ Len(api.desired.ngs) = Len(cur.cfg.ngs)
                /\ AllNg(api.desired.ngs, LAMBDA ng : ng.size = Args.nodeCount)
        /\ outcome = "passed" =>
                /\ poll.result = "success" /\ poll.T = 15 * 60 /\ poll.I = 10
                /\ poll.lastAt <= poll.T /\ err = NoErr
                /\ AllNg(cluster.status.ngs, LAMBDA ng : ng.size = Args.nodeCount)
        /\ pc = "done" => outcome \in {"passed", "failed"}
        /\ outcome = "failed" =>
                \/ failure.kind = "TimeoutExceeded" /\ poll.result = "timeout"
                                                    /\ poll.satCount = 0
                \/ failure.kind = "assertion" /\ poll.result # "timeout"
                      /\ (\/ hist.update = "rejected"
                          \/ failure.actual = <<"wait failed">>
                          \/ failure.actual = <<"get failed">>)

C15_Witness ==
    /\ C15_Scaled /\ Args.wait /\ outcome = "passed"
    /\ poll.result = "success" /\ poll.samples >= 2
    /\ Len(cluster.status.ngs) = 2
    /\ AllNg(cluster.status.ngs, LAMBDA ng : ng.size = 2)

C19_DeleteLeavesAllButOne ==
    (/\ scenario \notin CreateBodies
     /\ CurStep.op = "DeleteNodeGroup" /\ Args.check
     /\ hist.update = "accepted" /\ locals.currentNodeGroupNumber >= 2) =>
        /\ Len(api.desired.ngs) = locals.currentNodeGroupNumber - 1
        /\ \A i \in 1..Len(api.desired.ngs) :
                api.desired.ngs[i].name = outer.cfg.ngs[i].name

\* the call AddNodeGroup(cluster, increaseBy, client, wait, true) has been made
\* on the fixture and its Update answered
C20_Added ==
    /\ scenario \notin CreateBodies
    /\ CurStep.op = "AddNodeGroup" /\ Args.check
    /\ hist.update # "none"

\* C20: AddNodeGroup with checkClusterConfig=true on a cluster with k desired
\* node groups: once its Update is accepted the desired list has exactly
\* k+increaseBy node groups, the new ones in front of the k existing ones, which
\* keep their order; and the call returns only after a sample, taken within the
\* 15 minute / 10 second window, whose observed list has k+increaseBy node
\* groups named as the submitted list, position by position.
C20_AddPrependsAndWaitsForCount ==
    C20_Added =>
        LET k == locals.currentNodeGroupNumber
            n == Args.increaseBy
        IN /\ hist.update = "accepted" =>
                /\ Len(api.desired.ngs) = k + n
                /\ \A i \in 1..n : \E j \in 1..n :
                        api.desired.ngs[i].name = RandomNgName(j)
                /\ \A i \in 1..k :
                        api.desired.ngs[n + i].name = FixtureNG(i, "1.29").name
           /\ outcome = "passed" =>
                /\ hist.update = "accepted"
                /\ poll.result = "success" /\ poll.T = 15 * 60 /\ poll.I = 10
                /\ poll.lastAt <= poll.T
                /\ Len(cluster.status.ngs) = k + n
                /\ Len(locals.updateNodeGroupsList) = k + n
                /\ \A i \in 1..(k + n) :
                        cluster.status.ngs[i].name = locals.updateNodeGroupsList[i].name

C20_Witness ==
    /\ C20_Added /\ Args.wait /\ Args.increaseBy = 2
    /\ locals.currentNodeGroupNumber = 2
    /\ outcome = "passed" /\ poll.result = "success" /\ poll.samples >= 2
    /\ Len(cluster.status.ngs) = 4
    /\ cluster.status.ngs[1].name = RandomNgName(2)
    /\ cluster.status.ngs[3].name = FixtureNG(1, "1.29").name

\* the scenario is updateTagsAndLabels on a fixture cluster
IsUpdateTagsAndLabels ==
    \E k \in 1..MaxNodeGroups, v \in K8sVersions :
        scenario = updateTagsAndLabels(FixtureCfg(k, v))

\* C21: UpdateClusterTags replaces the tags: once its Update is accepted the
\* desired tags are the given map, and when it returns with
\* checkClusterConfig=true the observed tags of its last sample are the given
\* map exactly; so in updateTagsAndLabels, after the update to original plus
\* new tags and the update back have returned, desired and observed tags are
\* the original ones and none of the added keys is present.
C21_TagsReplacedNotMerged ==
    /\ (/\ scenario \notin CreateBodies
        /\ CurStep.op = "UpdateClusterTags" /\ Args.check) =>
            /\ (pc # "call" /\ hist.update = "accepted") =>
                    api.desired.tags = Args.tags
            /\ outcome = "passed" =>
                    /\ poll.result = "success"
                    /\ cluster.status.tags = Args.tags
    /\ (IsUpdateTagsAndLabels /\ (step > 2 \/ outcome = "passed")) =>
            /\ api.desired.tags = CommonMetadataLabels
            /\ api.observed.tags = CommonMetadataLabels
            /\ \A kv \in TestTags :
                    kv[1] \notin Keys(api.desired.tags) \cup Keys(api.observed.tags)

C21_Witness ==
    /\ IsUpdateTagsAndLabels /\ step = 3 /\ pc = "call"
    /\ poll.result = "success" /\ poll.samples >= 2
    /\ cluster.status.tags = CommonMetadataLabels
    /\ api.observed.tags = CommonMetadataLabels

\* C22: UpdateNodegroupMetadata replaces the tags and labels of every node
\* group: once its Update is accepted every desired node group has the given
\* maps; and with checkClusterConfig=true it returns successfully only when
\* every observed node group of its last sample has tags and labels equal to
\* the given maps.
C22_EveryNodeGroupHasMetadata ==
    (/\ scenario \notin CreateBodies
     /\ CurStep.op = "UpdateNodegroupMetadata" /\ Args.check) =>
        /\ (pc # "call" /\ hist.update = "accepted") =>
                AllNg(api.desired.ngs, LAMBDA ng :
                    ng.tags = Args.tags /\ ng.labels = Args.labels)
        /\ (outcome = "passed" /\ poll.result = "success") =>
                AllNg(cluster.status.ngs, LAMBDA ng :
                    ng.tags = Args.tags /\ ng.labels = Args.labels)

\* UpgradeClusterKubernetesVersion with checkClusterConfig=true is the step
\* being run, or the step that has just returned
C23_InUpgrade ==
    /\ scenario \notin CreateBodies
    /\ CurStep.op = "UpgradeClusterKubernetesVersion" /\ Args.check
    /\ pc # "call"

C23_UpgradeReturned ==
    /\ scenario \notin CreateBodies
    /\ \/ C23_InUpgrade /\ outcome = "passed"
       \/ /\ step > 1 /\ pc = "call"
          /\ scenario[step - 1].op = "UpgradeClusterKubernetesVersion"
          /\ scenario[step - 1].args.check

\* C23: UpgradeClusterKubernetesVersion with checkClusterConfig=true changes
\* the control-plane version only: in the desired configuration its accepted
\* Update leaves, and in the observed status of the sample it returns with,
\* every node group has the version the cluster had before the call.
C23_UpgradeKeepsNodeGroupVersions ==
    /\ (C23_InUpgrade /\ hist.update = "accepted") =>
            /\ api.desired.ver = Args.version
            /\ Len(api.desired.ngs) = Len(cur.cfg.ngs)
            /\ AllNg(api.desired.ngs, LAMBDA ng : ng.ver = locals.currentVersion)
    /\ C23_UpgradeReturned =>
            /\ poll.result = "success"
            /\ AllNg(cluster.status.ngs, LAMBDA ng : ng.ver = locals.currentVersion)
            /\ AllNg(cluster.cfg.ngs, LAMBDA ng : ng.ver = locals.currentVersion)

C23_Witness ==
    /\ C23_InUpgrade /\ outcome = "passed" /\ Args.version = "1.30"
    /\ locals.currentVersion = "1.29"
    /\ poll.result = "success" /\ poll.samples >= 2
    /\ cluster.status.ver = "1.30" /\ Len(cluster.status.ngs) >= 2
    /\ AllNg(cluster.status.ngs, LAMBDA ng : ng.ver = "1.29")

\* the scenario is syncRancherToAWSCheck on a fixture cluster of an older
\* version, upgraded to "1.30" at the provider
IsSyncRancherToAWS ==
    \E k \in 1..MaxNodeGroups :
        scenario = syncRancherToAWSCheck(FixtureCfg(k, "1.29"), "1.30")

\* C24: in syncRancherToAWSCheck each mutation changes only its own field:
\* once the Update of the scaling, of the added node group or of the logging
\* types is accepted, the desired Kubernetes version is still the one the
\* control plane was upgraded to, scaling has left the number and the versions
\* of the node groups as they were, and the logging update has left the number
\* of node groups at one more than at the start; and at each provider-side
\* read after a mutation the provider's version and node-group count are the
\* ones of the cluster the management API returned.
C24_EachMutationChangesOnlyItsField ==
    IsSyncRancherToAWS =>
        /\ (/\ CurStep.op \in {"ScaleNodeGroup", "AddNodeGroup", "UpdateLogging"}
            /\ pc # "call" /\ hist.update = "accepted") =>
                /\ api.desired.ver = scenario[1].args.version
                /\ CurStep.op = "ScaleNodeGroup" =>
                        /\ Len(api.desired.ngs) = Args.count
                        /\ AllNg(api.desired.ngs, LAMBDA ng : ng.ver = Args.k8sVersion)
                /\ CurStep.op = "UpdateLogging" =>
                        Len(api.desired.ngs) = Args.count
        /\ (CurStep.op = "GetFromEKS" /\ pc = "call") =>
                /\ api.aws.ver = cur.cfg.ver
                /\ Len(api.aws.ngs) = Len(cur.cfg.ngs)

\* the scenarios that submit a configuration the provider cannot reconcile and
\* poll for the error as their second step
IsErrorScenario ==
    \/ \E v \in K8sVersions : scenario = noNodegroups(v)
    \/ \E l \in {<<"1.30", "1.29", "1.28">>, <<"1.30", "1.29">>} :
            scenario = differentK8sVersions(l)
    \/ scenario = upgradeNodeKubernetesVersionGTCPCheck("1.30")
    \/ scenario = invalidAccessTest

C27_ReportedCaseIsOwnOrUnset ==
    \A i \in 1..Len(suite.reports) :
        suite.reports[i].testCaseID \in {-1, suite.reports[i].spec}

\* a spec that set its identifier was reported, and the spec after it, which
\* was skipped or failed before its It block, was reported with -1
C27_Witness ==
    /\ Len(suite.reports) = 2
    /\ suite.reports[1].testCaseID = suite.reports[1].spec
    /\ suite.reports[2].result \in {"skipped", "failed"}
    /\ suite.reports[2].testCaseID = -1

\* C28: a zonal spec of part_000 creates its cluster with a zone, no region
\* and no update function, a regional one with a region, no zone and the
\* update function, whatever specs ran before; never without zone and region
C28_PlacementIndependentOfOrder ==
    \A i \in 1..Len(suite.createdWith) :
        LET w == suite.createdWith[i]
        IN /\ ~(w.zone = "" /\ w.region = "")
           /\ IF suite.spec.regional
              THEN w.zone = "" /\ w.region # "" /\ w.updateFunc
              ELSE w.zone # "" /\ w.region = "" /\ ~w.updateFunc

\* C30: an "Upgrade testing" spec of part_001 whose BeforeEach succeeded
\* provisions with a version strictly lower than the one it upgrades to
C30_ProvisionedBelowUpgradeTarget ==
    (/\ suite.spec.file = "part_001" /\ suite.spec.isUpgrade
     /\ Len(suite.k8s) = 3
     /\ suite.k8s[2].ret.err = NoErr /\ suite.k8s[3].ret.err = NoErr)
    => Minor(suite.k8s[2].ret.version) < Minor(suite.k8s[3].ret.version)

\* C29: a step in which UpdateAccess or UpdatePublicAccessSources has its
\* submission rejected leaves PublicAccess, PrivateAccess and
\* PublicAccessSources of the caller's cluster object as they were
C29_RejectedUpdateLeavesCallerObject ==
    [][(/\ AtCall("UpdateAccess") \/ AtCall("UpdatePublicAccessSources")
        /\ hist'.update = "rejected")
       => /\ outer'.cfg.pub = outer.cfg.pub
          /\ outer'.cfg.priv = outer.cfg.priv
          /\ outer'.cfg.sources = outer.cfg.sources]_vars

\* the steps of the chart-support scenario, in the order they are to occur
C26_Steps ==
    << "upgrading rancher",
       "validating the chart version is > the old version",
       "upgrading the cluster",
       "downgrading the chart version",
       "scaling nodepool up",
       "uninstalling the operator chart",
       "adding a nodepool",
       "ensuring that the chart is re-installed",
       "waiting for the total nodepool count to increase" >>

\* the steps that have ended did so in that order, and what each of them is
\* to establish held when it ended, with the earlier ones still holding
C26_StepsHold ==
    LET names == [i \in 1..Len(chart.log) |-> chart.log[i].block]
        mine == SelectSeq(names, LAMBDA b : \E j \in 1..Len(C26_Steps) : C26_Steps[j] = b)
    IN /\ Len(mine) <= Len(C26_Steps)
       /\ mine = SubSeq(C26_Steps, 1, Len(mine))
       /\ \A i \in 2..Len(chart.log) :
            LET s == chart.log[i]
                before == chart.log[i - 1]
            IN CASE s.block = "upgrading rancher" ->
                        s.rancher = RancherUpgradeFullVersion
                 [] s.block = "validating the chart version is > the old version" ->
                        /\ s.rancher = RancherUpgradeFullVersion
                        /\ s.installed > chart.originalChartVersion
                 [] s.block = "upgrading the cluster" ->
                        /\ s.k8s > before.k8s
                        /\ s.installed > chart.originalChartVersion
                 [] s.block = "downgrading the chart version" ->
                        /\ s.installed # 0
                        /\ s.installed < chart.upgradedChartVersion
                        /\ s.k8s = chart.latest
                 [] s.block = "scaling nodepool up" ->
                        /\ s.nodeCount = before.nodeCount + 1
                        /\ s.installed = chart.downgradeVersion
                 [] s.block = "uninstalling the operator chart" ->
                        /\ s.installed = 0
                        /\ s.nodeCount = before.nodeCount
                 [] s.block = "adding a nodepool" ->
                        /\ before.installed = 0
                        /\ s.pools = before.pools + 1
                 [] s.block = "ensuring that the chart is re-installed" ->
                        /\ s.installed = chart.upgradedChartVersion
                        /\ s.pools = chart.currentNodePoolNumber + 1
                 [] s.block = "waiting for the total nodepool count to increase" ->
                        /\ s.upstreamPools = chart.currentNodePoolNumber + 1
                        /\ s.installed = chart.upgradedChartVersion
                 [] OTHER -> TRUE

C10_SyncErrorEndsScenario == ~hist.ranAfter
====
